---------------------------- MODULE Spec2Model ----------------------------
(***************************************************************************)
(* Model of the JSON session core (AppState): the document, its flat       *)
(* shadow-tree index, JSONPath extraction and mutation, and the            *)
(* expansion / visibility state machine.                                   *)
(*                                                                         *)
(* Text is modelled as a sequence of one-character strings, so that        *)
(* formatting, parsing, escaping and substring tests are computed rather   *)
(* than assumed.                                                           *)
(***************************************************************************)
EXTENDS Integers, Sequences, FiniteSets, TLC

(***************************************************************************)
(* Bounds of the model.                                                    *)
(***************************************************************************)
\* how many successful mutations one behaviour may perform
MaxMutations == 1

\* preview_of truncates strings longer than this many code points
PreviewLimit == 32

(***************************************************************************)
(* Characters.                                                             *)
(***************************************************************************)
Digits == <<"0", "1", "2", "3", "4", "5", "6", "7", "8", "9">>

DigitSet == {Digits[i] : i \in 1..10}

LowerSet == {"a", "b", "c", "d", "e", "f", "g", "h", "i", "j", "k", "l", "m",
             "n", "o", "p", "q", "r", "s", "t", "u", "v", "w", "x", "y", "z"}

UpperSet == {"A", "B", "C", "D", "E", "F", "G", "H", "I", "J", "K", "L", "M",
             "N", "O", "P", "Q", "R", "S", "T", "U", "V", "W", "X", "Y", "Z"}

\* char::is_ascii_alphanumeric
IsAsciiAlnum(c) == c \in DigitSet \cup LowerSet \cup UpperSet

\* char::is_whitespace, restricted to the characters of the model
IsSpace(c) == c \in {" ", "\n", "\t", "\r"}

\* usize / u32 Display: decimal text
RECURSIVE DecChars(_)
DecChars(n) ==
    IF n < 10 THEN <<Digits[n + 1]>>
    ELSE DecChars(n \div 10) \o <<Digits[(n % 10) + 1]>>

DigitVal(c) == CHOOSE d \in 0..9 : Digits[d + 1] = c

\* str::trim
RECURSIVE TrimStart(_)
TrimStart(s) ==
    IF Len(s) > 0 /\ IsSpace(s[1]) THEN TrimStart(Tail(s)) ELSE s

RECURSIVE TrimEnd(_)
TrimEnd(s) ==
    IF Len(s) > 0 /\ IsSpace(s[Len(s)]) THEN TrimEnd(SubSeq(s, 1, Len(s) - 1))
    ELSE s

Trim(s) == TrimEnd(TrimStart(s))

\* str::contains(&str): pat occurs in s as a contiguous substring
Contains(s, pat) ==
    \E i \in 1..(Len(s) - Len(pat) + 1) : SubSeq(s, i, i + Len(pat) - 1) = pat

\* str::replace('\'', "\\'")
RECURSIVE EscapeQuote(_)
EscapeQuote(k) ==
    IF k = <<>> THEN <<>>
    ELSE (IF k[1] = "'" THEN <<"\\", "'">> ELSE <<k[1]>>) \o EscapeQuote(Tail(k))

(***************************************************************************)
(* serde_json::Value.  One record shape for every kind: keys/kids are the  *)
(* members of an object (in map order) or the elements of an array, str is *)
(* the payload of a scalar (the content of a string, the canonical text of *)
(* a number or boolean).                                                   *)
(***************************************************************************)
Obj(keys, kids) == [kind |-> "Object", keys |-> keys, kids |-> kids, str |-> <<>>]

Arr(kids) == [kind |-> "Array", keys |-> <<>>, kids |-> kids, str |-> <<>>]

Str(s) == [kind |-> "String", keys |-> <<>>, kids |-> <<>>, str |-> s]

Num(s) == [kind |-> "Number", keys |-> <<>>, kids |-> <<>>, str |-> s]

Bool(s) == [kind |-> "Bool", keys |-> <<>>, kids |-> <<>>, str |-> s]

Null == [kind |-> "Null", keys |-> <<>>, kids |-> <<>>, str |-> <<"n", "u", "l", "l">>]

\* Option<Value>::None
NoDom == [kind |-> "None", keys |-> <<>>, kids |-> <<>>, str |-> <<>>]

(***************************************************************************)
(* Shadow tree builder.                                                    *)
(***************************************************************************)
kind_of(v) == v.kind

\* mutant of preview_of: a string of exactly PreviewLimit code points is cut too
preview_of_CutsAtLimit(v) ==
    CASE v.kind = "String" ->
            LET s == Trim(v.str) IN
            IF Len(s) >= PreviewLimit
            THEN <<"\"">> \o SubSeq(s, 1, PreviewLimit) \o <<".", ".", ".", "\"">>
            ELSE <<"\"">> \o s \o <<"\"">>
      [] v.kind = "Object" ->
            <<"{", ".", ".", "}", " ", "(">> \o DecChars(Len(v.kids))
                \o <<" ", "k", "e", "y", "s", ")">>
      [] v.kind = "Array" ->
            <<"[", ".", ".", "]", " ", "(">> \o DecChars(Len(v.kids))
                \o <<" ", "i", "t", "e", "m", "s", ")">>
      [] OTHER -> v.str

preview_of(v) ==
    CASE v.kind = "String" ->
            LET s == Trim(v.str) IN
            IF Len(s) > PreviewLimit
            THEN <<"\"">> \o SubSeq(s, 1, PreviewLimit) \o <<".", ".", ".", "\"">>
            ELSE <<"\"">> \o s \o <<"\"">>
      [] v.kind = "Object" ->
            <<"{", ".", ".", "}", " ", "(">> \o DecChars(Len(v.kids))
                \o <<" ", "k", "e", "y", "s", ")">>
      [] v.kind = "Array" ->
            <<"[", ".", ".", "]", " ", "(">> \o DecChars(Len(v.kids))
                \o <<" ", "i", "t", "e", "m", "s", ")">>
      [] OTHER -> v.str

\* mutant of push_node: a node starts expanded
push_node_StartsExpanded(name, path, v, depth) ==
    [name |-> name, path |-> path, kind |-> kind_of(v),
     children |-> Len(v.kids), preview |-> preview_of(v), depth |-> depth,
     expanded |-> TRUE, visible |-> TRUE]

push_node(name, path, v, depth) ==
    [name |-> name, path |-> path, kind |-> kind_of(v),
     children |-> Len(v.kids), preview |-> preview_of(v), depth |-> depth,
     expanded |-> FALSE, visible |-> TRUE]

\* mutant of field_path: every member name is appended in dot form
field_path_AlwaysDot(path, k) == path \o <<".">> \o k

\* path of an object member: dot form for [A-Za-z0-9_]*, else bracket form
field_path(path, k) ==
    IF \A i \in 1..Len(k) : IsAsciiAlnum(k[i]) \/ k[i] = "_"
    THEN path \o <<".">> \o k
    ELSE path \o <<"[", "'">> \o EscapeQuote(k) \o <<"'", "]">>

item_path(path, idx) == path \o <<"[">> \o DecChars(idx) \o <<"]">>

item_name(idx) == <<"[">> \o DecChars(idx) \o <<"]">>

RECURSIVE walk(_, _, _, _)
RECURSIVE walk_children(_, _, _, _)
RECURSIVE walk_children_FlatItems(_, _, _, _)
\* mutant of walk_children: array elements are pushed at the depth of the array
walk_children_FlatItems(v, path, depth, i) ==
    IF i > Len(v.kids) THEN <<>>
    ELSE (IF v.kind = "Object"
          THEN walk(v.kids[i], field_path(path, v.keys[i]), v.keys[i], depth + 1)
          ELSE walk(v.kids[i], item_path(path, i - 1), item_name(i - 1), depth))
         \o walk_children_FlatItems(v, path, depth, i + 1)

walk(v, path, name, depth) ==
    <<push_node(name, path, v, depth)>> \o walk_children(v, path, depth, 1)

walk_children(v, path, depth, i) ==
    IF i > Len(v.kids) THEN <<>>
    ELSE (IF v.kind = "Object"
          THEN walk(v.kids[i], field_path(path, v.keys[i]), v.keys[i], depth + 1)
          ELSE walk(v.kids[i], item_path(path, i - 1), item_name(i - 1), depth + 1))
         \o walk_children(v, path, depth, i + 1)

build_shadow_tree(root) == walk(root, <<"$">>, <<"$">>, 0)

(***************************************************************************)
(* JSONPath (jsonpath_rust): parsing of the address surface of the session *)
(* -- root "$", member shorthand ".name", bracketed member ['name'] or     *)
(* ["name"], array index [n] -- and first-match resolution.                *)
(***************************************************************************)
\* RFC 9535 name-first / name-char of the member-name shorthand
IsNameFirst(c) == c \in LowerSet \cup UpperSet \cup {"_"}

IsNameChar(c) == IsNameFirst(c) \/ c \in DigitSet

\* index of the last character of the shorthand name whose first character is at i
RECURSIVE NameEnd(_, _)
NameEnd(p, i) ==
    IF i + 1 <= Len(p) /\ IsNameChar(p[i + 1]) THEN NameEnd(p, i + 1) ELSE i

\* index of the quote q closing a string literal whose content starts at i; 0 if none
RECURSIVE QuoteEnd(_, _, _)
QuoteEnd(p, i, q) ==
    IF i > Len(p) THEN 0
    ELSE IF p[i] = q THEN i
    ELSE IF p[i] = "\\"
         THEN (IF i + 1 <= Len(p) /\ p[i + 1] \in {"'", "\"", "\\", "/", "n", "t", "r"}
               THEN QuoteEnd(p, i + 2, q) ELSE 0)
    ELSE QuoteEnd(p, i + 1, q)

\* index of the last digit of the run of digits starting at i (i - 1 if none)
RECURSIVE DigitsEnd(_, _)
DigitsEnd(p, i) ==
    IF i <= Len(p) /\ p[i] \in DigitSet THEN DigitsEnd(p, i + 1) ELSE i - 1

\* str::parse::<usize> of a string of digits
RECURSIVE ParseNat(_)
ParseNat(d) ==
    IF d = <<>> THEN 0
    ELSE 10 * ParseNat(SubSeq(d, 1, Len(d) - 1)) + DigitVal(d[Len(d)])

NameSeg(raw) == [name |-> TRUE, raw |-> raw, idx |-> 0]

IndexSeg(n) == [name |-> FALSE, raw |-> <<>>, idx |-> n]

ParseFail == [ok |-> FALSE, segs |-> <<>>]

\* the segments after the root identifier, from position i on
RECURSIVE ParseSegs(_, _, _)
ParseSegs(p, i, acc) ==
    IF i > Len(p) THEN [ok |-> TRUE, segs |-> acc]
    ELSE IF p[i] = "."
    THEN IF i + 1 <= Len(p) /\ IsNameFirst(p[i + 1])
         THEN LET e == NameEnd(p, i + 1)
              IN  ParseSegs(p, e + 1, Append(acc, NameSeg(SubSeq(p, i + 1, e))))
         ELSE ParseFail
    ELSE IF p[i] = "[" /\ i + 1 <= Len(p)
    THEN IF p[i + 1] \in {"'", "\""}
         THEN LET e == QuoteEnd(p, i + 2, p[i + 1])
              IN  IF e > 0 /\ e + 1 <= Len(p) /\ p[e + 1] = "]"
                  THEN ParseSegs(p, e + 2, Append(acc, NameSeg(SubSeq(p, i + 1, e))))
                  ELSE ParseFail
         ELSE LET e == DigitsEnd(p, i + 1)
              IN  IF e >= i + 1 /\ e + 1 <= Len(p) /\ p[e + 1] = "]"
                     /\ (p[i + 1] = "0" => e = i + 1)
                  THEN ParseSegs(p, e + 2,
                                 Append(acc, IndexSeg(ParseNat(SubSeq(p, i + 1, e)))))
                  ELSE ParseFail
    ELSE ParseFail

parse_json_path(p) ==
    IF Len(p) >= 1 /\ p[1] = "$" THEN ParseSegs(p, 2, <<>>) ELSE ParseFail

\* str::trim_matches over a set of characters
RECURSIVE TrimMatches(_, _)
TrimMatches(s, cs) ==
    IF Len(s) > 0 /\ s[1] \in cs THEN TrimMatches(Tail(s), cs)
    ELSE IF Len(s) > 0 /\ s[Len(s)] \in cs THEN TrimMatches(SubSeq(s, 1, Len(s) - 1), cs)
    ELSE s

\* Queryable::get: a name wrapped in a pair of quotes is looked up without them
process_key(raw) ==
    IF Len(raw) > 0 /\ raw[1] = "'" /\ raw[Len(raw)] = "'" THEN TrimMatches(raw, {"'"})
    ELSE IF Len(raw) > 0 /\ raw[1] = "\"" /\ raw[Len(raw)] = "\""
         THEN TrimMatches(raw, {"\""})
    ELSE raw

\* position of key k among the members of object v, 0 when absent
KeyIndex(v, k) ==
    IF \E i \in 1..Len(v.keys) : v.keys[i] = k
    THEN CHOOSE i \in 1..Len(v.keys) : v.keys[i] = k
    ELSE 0

NotFound == [found |-> FALSE, pos |-> <<>>]

\* a location in a value is the sequence of child positions leading to it
RECURSIVE ValueAt(_, _)
ValueAt(v, pos) ==
    IF pos = <<>> THEN v ELSE ValueAt(v.kids[pos[1]], Tail(pos))

\* the location selected by name / index segments (at most one match)
RECURSIVE Locate(_, _, _)
Locate(v, segs, pos) ==
    IF segs = <<>> THEN [found |-> TRUE, pos |-> pos]
    ELSE LET s == segs[1] IN
         IF s.name
         THEN LET k == IF v.kind = "Object"
                       THEN KeyIndex(v, process_key(s.raw)) ELSE 0
              IN  IF k > 0 THEN Locate(v.kids[k], Tail(segs), Append(pos, k))
                  ELSE NotFound
         ELSE IF v.kind = "Array" /\ s.idx < Len(v.kids)
              THEN Locate(v.kids[s.idx + 1], Tail(segs), Append(pos, s.idx + 1))
              ELSE NotFound

\* dom.query(json_path): "parse" error, or the list of hits (locations)
query(dom, json_path) ==
    LET q == parse_json_path(json_path) IN
    IF ~q.ok THEN [err |-> "JsonPath", hits |-> <<>>]
    ELSE LET l == Locate(dom, q.segs, <<>>)
         IN  [err |-> "none", hits |-> IF l.found THEN <<l.pos>> ELSE <<>>]

\* the normalized path of a location, as query_only_path reports it
RECURSIVE NormalizedPath(_, _)
NormalizedPath(v, pos) ==
    IF pos = <<>> THEN <<>>
    ELSE (IF v.kind = "Object"
          THEN <<"[", "'">> \o v.keys[pos[1]] \o <<"'", "]">>
          ELSE <<"[">> \o DecChars(pos[1] - 1) \o <<"]">>)
         \o NormalizedPath(v.kids[pos[1]], Tail(pos))

query_only_path(dom, json_path) ==
    LET r == query(dom, json_path) IN
    [err |-> r.err,
     paths |-> IF r.hits = <<>> THEN <<>>
               ELSE <<(<<"$">> \o NormalizedPath(dom, r.hits[1]))>>]

(***************************************************************************)
(* reference_mut: the normalized path is converted to a JSON pointer and   *)
(* looked up with Value::pointer_mut.                                      *)
(***************************************************************************)
RECURSIVE PointerOf(_)
PointerOf(segs) ==
    IF segs = <<>> THEN <<>>
    ELSE <<"/">> \o (IF segs[1].name THEN TrimMatches(segs[1].raw, {"'"})
                     ELSE DecChars(segs[1].idx))
         \o PointerOf(Tail(segs))

\* str::split(sep), as a sequence of tokens
RECURSIVE Split(_, _, _)
Split(s, sep, cur) ==
    IF s = <<>> THEN <<cur>>
    ELSE IF s[1] = sep THEN <<cur>> \o Split(Tail(s), sep, <<>>)
    ELSE Split(Tail(s), sep, Append(cur, s[1]))

\* str::replace of the two-character pattern <<a, b>> by r
RECURSIVE Replace2(_, _, _, _)
Replace2(s, a, b, r) ==
    IF Len(s) < 2 THEN s
    ELSE IF s[1] = a /\ s[2] = b THEN <<r>> \o Replace2(SubSeq(s, 3, Len(s)), a, b, r)
    ELSE <<s[1]>> \o Replace2(Tail(s), a, b, r)

PointerToken(t) == Replace2(Replace2(t, "~", "1", "/"), "~", "0", "~")

\* serde_json parse_index
ParseIndexOk(t) ==
    /\ t # <<>>
    /\ \A i \in 1..Len(t) : t[i] \in DigitSet
    /\ (t[1] = "0" => Len(t) = 1)

RECURSIVE PointerLocate(_, _, _)
PointerLocate(v, toks, pos) ==
    IF toks = <<>> THEN [found |-> TRUE, pos |-> pos]
    ELSE LET t == PointerToken(toks[1]) IN
         IF v.kind = "Object"
         THEN LET k == KeyIndex(v, t)
              IN  IF k > 0 THEN PointerLocate(v.kids[k], Tail(toks), Append(pos, k))
                  ELSE NotFound
         ELSE IF v.kind = "Array" /\ ParseIndexOk(t) /\ ParseNat(t) < Len(v.kids)
              THEN PointerLocate(v.kids[ParseNat(t) + 1], Tail(toks),
                                 Append(pos, ParseNat(t) + 1))
              ELSE NotFound

reference_mut(dom, path) ==
    LET q == parse_json_path(path) IN
    IF ~q.ok THEN NotFound
    ELSE LET ptr == PointerOf(q.segs) IN
         IF ptr = <<>> THEN [found |-> TRUE, pos |-> <<>>]
         ELSE PointerLocate(dom, Tail(Split(ptr, "/", <<>>)), <<>>)

\* mutant of ReplaceAt: assigns into the container that holds the slot
RECURSIVE ReplaceAt_Parent(_, _, _)
ReplaceAt_Parent(v, pos, new) ==
    IF Len(pos) <= 1 THEN new
    ELSE [v EXCEPT !.kids[pos[1]] = ReplaceAt_Parent(v.kids[pos[1]], Tail(pos), new)]

\* *slot = replacement
RECURSIVE ReplaceAt(_, _, _)
ReplaceAt(v, pos, new) ==
    IF pos = <<>> THEN new
    ELSE [v EXCEPT !.kids[pos[1]] = ReplaceAt(v.kids[pos[1]], Tail(pos), new)]

(***************************************************************************)
(* JSON text: serde_json::to_string_pretty and serde_json::from_reader.    *)
(***************************************************************************)
\* the characters of the model in code point order; "U+952E" stands for that
\* one (non-ASCII) code point, which is a single character of a text
CodeOrder ==
    <<"\t", "\n", "\r", " ", "!", "\"", "#", "$", "%", "&", "'", "(", ")", "*",
      "+", ",", "-", ".", "/">> \o Digits \o <<":", ";", "<", "=", ">", "?", "@",
      "A", "B", "C", "D", "E", "F", "G", "H", "I", "J", "K", "L", "M",
      "N", "O", "P", "Q", "R", "S", "T", "U", "V", "W", "X", "Y", "Z",
      "[", "\\", "]", "^", "_",
      "a", "b", "c", "d", "e", "f", "g", "h", "i", "j", "k", "l", "m",
      "n", "o", "p", "q", "r", "s", "t", "u", "v", "w", "x", "y", "z",
      "{", "|", "}", "~", "U+952E">>

CharCode(c) == CHOOSE i \in 1..Len(CodeOrder) : CodeOrder[i] = c

\* String ordering (Ord for String): lexicographic by code point
RECURSIVE LessStr(_, _)
LessStr(a, b) ==
    IF b = <<>> THEN FALSE
    ELSE IF a = <<>> THEN TRUE
    ELSE IF a[1] = b[1] THEN LessStr(Tail(a), Tail(b))
    ELSE CharCode(a[1]) < CharCode(b[1])

\* mutant of EscapeJson: a double quote is written unescaped
RECURSIVE EscapeJson_QuoteUnescaped(_)
EscapeJson_QuoteUnescaped(s) ==
    IF s = <<>> THEN <<>>
    ELSE (CASE s[1] = "\\" -> <<"\\", "\\">>
            [] s[1] = "\n" -> <<"\\", "n">>
            [] OTHER -> <<s[1]>>)
         \o EscapeJson_QuoteUnescaped(Tail(s))

\* serde_json string escaping
RECURSIVE EscapeJson(_)
EscapeJson(s) ==
    IF s = <<>> THEN <<>>
    ELSE (CASE s[1] = "\"" -> <<"\\", "\"">>
            [] s[1] = "\\" -> <<"\\", "\\">>
            [] s[1] = "\n" -> <<"\\", "n">>
            [] s[1] = "\t" -> <<"\\", "t">>
            [] s[1] = "\r" -> <<"\\", "r">>
            [] OTHER -> <<s[1]>>)
         \o EscapeJson(Tail(s))

QuoteJson(s) == <<"\"">> \o EscapeJson(s) \o <<"\"">>

RECURSIVE Indent(_)
Indent(n) == IF n = 0 THEN <<>> ELSE <<" ", " ">> \o Indent(n - 1)

RECURSIVE Pretty(_, _)
RECURSIVE PrettyItems(_, _, _)
Pretty(v, ind) ==
    CASE v.kind = "String" -> QuoteJson(v.str)
      [] v.kind = "Object" ->
            IF v.kids = <<>> THEN <<"{", "}">>
            ELSE <<"{", "\n">> \o PrettyItems(v, ind + 1, 1) \o <<"\n">>
                 \o Indent(ind) \o <<"}">>
      [] v.kind = "Array" ->
            IF v.kids = <<>> THEN <<"[", "]">>
            ELSE <<"[", "\n">> \o PrettyItems(v, ind + 1, 1) \o <<"\n">>
                 \o Indent(ind) \o <<"]">>
      [] OTHER -> v.str

PrettyItems(v, ind, i) ==
    Indent(ind)
    \o (IF v.kind = "Object" THEN QuoteJson(v.keys[i]) \o <<":", " ">> ELSE <<>>)
    \o Pretty(v.kids[i], ind)
    \o (IF i < Len(v.kids) THEN <<",", "\n">> \o PrettyItems(v, ind, i + 1) ELSE <<>>)

to_string_pretty(v) == Pretty(v, 0)

\* Map::insert of the default (sorted) serde_json map: replace or insert in key order
RECURSIVE MapInsert(_, _, _)
MapInsert(m, k, v) ==
    IF m.keys = <<>> THEN Obj(<<k>>, <<v>>)
    ELSE IF m.keys[1] = k THEN Obj(m.keys, <<v>> \o Tail(m.kids))
    ELSE IF LessStr(k, m.keys[1]) THEN Obj(<<k>> \o m.keys, <<v>> \o m.kids)
    ELSE LET r == MapInsert(Obj(Tail(m.keys), Tail(m.kids)), k, v)
         IN  Obj(<<m.keys[1]>> \o r.keys, <<m.kids[1]>> \o r.kids)

RECURSIVE SkipWs(_, _)
SkipWs(t, i) == IF i <= Len(t) /\ IsSpace(t[i]) THEN SkipWs(t, i + 1) ELSE i

JsonFail == [ok |-> FALSE, v |-> NoDom, next |-> 0]

JsonOk(v, next) == [ok |-> TRUE, v |-> v, next |-> next]

HasAt(t, i, w) == i + Len(w) - 1 <= Len(t) /\ SubSeq(t, i, i + Len(w) - 1) = w

\* the content of a JSON string literal whose first content character is at i
RECURSIVE ParseStringBody(_, _, _)
ParseStringBody(t, i, acc) ==
    IF i > Len(t) THEN JsonFail
    ELSE IF t[i] = "\"" THEN JsonOk(Str(acc), i + 1)
    ELSE IF t[i] = "\\"
    THEN IF i + 1 > Len(t) THEN JsonFail
         ELSE (CASE t[i + 1] \in {"\"", "\\", "/"} ->
                        ParseStringBody(t, i + 2, Append(acc, t[i + 1]))
                 [] t[i + 1] = "n" -> ParseStringBody(t, i + 2, Append(acc, "\n"))
                 [] t[i + 1] = "t" -> ParseStringBody(t, i + 2, Append(acc, "\t"))
                 [] t[i + 1] = "r" -> ParseStringBody(t, i + 2, Append(acc, "\r"))
                 [] OTHER -> JsonFail)
    ELSE IF t[i] \in {"\n", "\t", "\r"} THEN JsonFail
    ELSE ParseStringBody(t, i + 1, Append(acc, t[i]))

\* an integer literal starting at i
ParseNumber(t, i) ==
    LET d == IF t[i] = "-" THEN i + 1 ELSE i
        e == DigitsEnd(t, d)
    IN  IF e >= d /\ (t[d] = "0" => e = d)
        THEN JsonOk(Num(SubSeq(t, i, e)), e + 1)
        ELSE JsonFail

RECURSIVE ParseValue(_, _)
RECURSIVE ParseMembers(_, _, _)
RECURSIVE ParseElems(_, _, _)
ParseValue(t, i0) ==
    LET i == SkipWs(t, i0) IN
    IF i > Len(t) THEN JsonFail
    ELSE CASE t[i] = "\"" -> ParseStringBody(t, i + 1, <<>>)
           [] t[i] = "{" ->
                LET j == SkipWs(t, i + 1) IN
                IF j <= Len(t) /\ t[j] = "}" THEN JsonOk(Obj(<<>>, <<>>), j + 1)
                ELSE ParseMembers(t, j, Obj(<<>>, <<>>))
           [] t[i] = "[" ->
                LET j == SkipWs(t, i + 1) IN
                IF j <= Len(t) /\ t[j] = "]" THEN JsonOk(Arr(<<>>), j + 1)
                ELSE ParseElems(t, j, <<>>)
           [] t[i] = "-" \/ t[i] \in DigitSet -> ParseNumber(t, i)
           [] HasAt(t, i, <<"t", "r", "u", "e">>) ->
                JsonOk(Bool(<<"t", "r", "u", "e">>), i + 4)
           [] HasAt(t, i, <<"f", "a", "l", "s", "e">>) ->
                JsonOk(Bool(<<"f", "a", "l", "s", "e">>), i + 5)
           [] HasAt(t, i, <<"n", "u", "l", "l">>) -> JsonOk(Null, i + 4)
           [] OTHER -> JsonFail

\* members of an object from position i (at a key), m the map so far
ParseMembers(t, i, m) ==
    IF i > Len(t) \/ t[i] # "\"" THEN JsonFail
    ELSE LET k == ParseStringBody(t, i + 1, <<>>) IN
         IF ~k.ok THEN JsonFail
         ELSE LET c == SkipWs(t, k.next) IN
              IF c > Len(t) \/ t[c] # ":" THEN JsonFail
              ELSE LET x == ParseValue(t, c + 1) IN
                   IF ~x.ok THEN JsonFail
                   ELSE LET e == SkipWs(t, x.next)
                            m2 == MapInsert(m, k.v.str, x.v)
                        IN  IF e > Len(t) THEN JsonFail
                            ELSE IF t[e] = "}" THEN JsonOk(m2, e + 1)
                            ELSE IF t[e] = ","
                                 THEN ParseMembers(t, SkipWs(t, e + 1), m2)
                            ELSE JsonFail

\* elements of an array from position i, acc the elements so far
ParseElems(t, i, acc) ==
    LET x == ParseValue(t, i) IN
    IF ~x.ok THEN JsonFail
    ELSE LET e == SkipWs(t, x.next) IN
         IF e > Len(t) THEN JsonFail
         ELSE IF t[e] = "]" THEN JsonOk(Arr(Append(acc, x.v)), e + 1)
         ELSE IF t[e] = "," THEN ParseElems(t, e + 1, Append(acc, x.v))
         ELSE JsonFail

\* serde_json::from_reader / from_str: one value, then only whitespace
from_str(t) ==
    LET x == ParseValue(t, 1) IN
    IF x.ok /\ SkipWs(t, x.next) > Len(t) THEN x ELSE JsonFail

(***************************************************************************)
(* AppState operations, as functions from a session state                  *)
(* [dom, tree_flat, source_path, original_file_path] to a result.          *)
(***************************************************************************)
\* Option<PathBuf>::None
NoPath == 0

\* AppState::default()
EmptyState ==
    [dom |-> NoDom, tree_flat |-> <<>>, source_path |-> NoPath,
     original_file_path |-> NoPath]

\* read_json_file: open the file, then parse its bytes
read_json_file(file) ==
    IF ~file.readable THEN [err |-> "Io", v |-> NoDom]
    ELSE LET x == from_str(file.text)
         IN  IF x.ok THEN [err |-> "none", v |-> x.v] ELSE [err |-> "Parse", v |-> NoDom]

\* mutant of extract_subtree_pretty: an address that matches nothing yields null
extract_subtree_pretty_NullOnMiss(st, json_path) ==
    IF st.dom = NoDom THEN [err |-> "State", text |-> <<>>]
    ELSE LET r == query(st.dom, json_path) IN
         IF r.err # "none" THEN [err |-> "JsonPath", text |-> <<>>]
         ELSE IF r.hits = <<>> THEN [err |-> "none", text |-> <<"n", "u", "l", "l">>]
         ELSE [err |-> "none", text |-> to_string_pretty(ValueAt(st.dom, r.hits[1]))]

extract_subtree_pretty(st, json_path) ==
    IF st.dom = NoDom THEN [err |-> "State", text |-> <<>>]
    ELSE LET r == query(st.dom, json_path) IN
         IF r.err # "none" THEN [err |-> "JsonPath", text |-> <<>>]
         ELSE IF r.hits = <<>> THEN [err |-> "JsonPath", text |-> <<>>]
         ELSE [err |-> "none", text |-> to_string_pretty(ValueAt(st.dom, r.hits[1]))]

\* mutant of replacement_value: the text is parsed when it is valid JSON
replacement_value_Parsed(new_json) ==
    IF from_str(new_json).ok THEN from_str(new_json).v ELSE Str(new_json)

\* let replacement: Value = Value::String(new_json.to_string())
replacement_value(new_json) == Str(new_json)

\* mutant of update_failed: the index is rebuilt before the error is returned
update_failed_Rebuilds(st, why) ==
    [err |-> IF why = "not loaded" THEN "State" ELSE "JsonPath", why |-> why,
     st |-> IF st.dom = NoDom THEN st
            ELSE [st EXCEPT !.tree_flat = build_shadow_tree(st.dom)]]

\* the early returns of update_node_from_str: err is the AppError variant, why
\* tells its causes apart; the session is returned as it was
update_failed(st, why) ==
    [err |-> IF why = "not loaded" THEN "State" ELSE "JsonPath", why |-> why, st |-> st]

\* mutant of update_done: the index is not rebuilt after the assignment
update_done_NoRebuild(st, d) ==
    [err |-> "none", why |-> "", st |-> [st EXCEPT !.dom = d]]

\* the slot has been assigned: rebuild the index from the mutated document
update_done(st, d) ==
    [err |-> "none", why |-> "",
     st |-> [st EXCEPT !.dom = d, !.tree_flat = build_shadow_tree(d)]]

update_node_from_str(st, json_path, new_json) ==
    IF st.dom = NoDom THEN update_failed(st, "not loaded")
    ELSE LET q == query_only_path(st.dom, json_path) IN
         IF q.err # "none" THEN update_failed(st, "invalid")
         ELSE IF q.paths = <<>> THEN update_failed(st, "no match")
         ELSE LET replacement == replacement_value(new_json)
                  slot == reference_mut(st.dom, q.paths[1])
              IN  IF ~slot.found THEN update_failed(st, "not updatable")
                  ELSE update_done(st, ReplaceAt(st.dom, slot.pos, replacement))

\* mutant of apply_search_filter: the substring test is intersected with the
\* visibility the nodes already had
apply_search_filter_Intersect(tree, filter) ==
    IF Trim(filter) = <<>>
    THEN [i \in 1..Len(tree) |-> [tree[i] EXCEPT !.visible = TRUE]]
    ELSE [i \in 1..Len(tree) |->
            [tree[i] EXCEPT !.visible = tree[i].visible
                                        /\ (Contains(tree[i].path, filter)
                                            \/ Contains(tree[i].name, filter))]]

\* mutant of apply_search_filter: clearing the filter also collapses every node
apply_search_filter_ClearCollapses(tree, filter) ==
    IF Trim(filter) = <<>>
    THEN [i \in 1..Len(tree) |-> [tree[i] EXCEPT !.visible = TRUE, !.expanded = FALSE]]
    ELSE [i \in 1..Len(tree) |->
            [tree[i] EXCEPT !.visible = Contains(tree[i].path, filter)
                                        \/ Contains(tree[i].name, filter)]]

apply_search_filter(tree, filter) ==
    IF Trim(filter) = <<>>
    THEN [i \in 1..Len(tree) |-> [tree[i] EXCEPT !.visible = TRUE]]
    ELSE [i \in 1..Len(tree) |->
            [tree[i] EXCEPT !.visible = Contains(tree[i].path, filter)
                                        \/ Contains(tree[i].name, filter)]]

\* mutant of ShowChildren: compares with the parent's own depth
RECURSIVE ShowChildren_SameDepth(_, _, _)
ShowChildren_SameDepth(tree, parent_depth, j) ==
    IF j > Len(tree) THEN tree
    ELSE IF tree[j].depth = parent_depth
         THEN ShowChildren_SameDepth([tree EXCEPT ![j].visible = TRUE], parent_depth, j + 1)
    ELSE IF tree[j].depth < parent_depth THEN tree
    ELSE ShowChildren_SameDepth(tree, parent_depth, j + 1)

\* inner loop of update_visibility_by_expansion: reveal the direct children of
\* the node of depth parent_depth, scanning from j until its range ends
RECURSIVE ShowChildren(_, _, _)
ShowChildren(tree, parent_depth, j) ==
    IF j > Len(tree) THEN tree
    ELSE IF tree[j].depth = parent_depth + 1
         THEN ShowChildren([tree EXCEPT ![j].visible = TRUE], parent_depth, j + 1)
    ELSE IF tree[j].depth <= parent_depth THEN tree
    ELSE ShowChildren(tree, parent_depth, j + 1)

\* mutant of ExpandFrom: an expanded node reveals its children even when hidden
RECURSIVE ExpandFrom_IgnoresVisible(_, _)
ExpandFrom_IgnoresVisible(tree, i) ==
    IF i > Len(tree) THEN tree
    ELSE IF tree[i].expanded
         THEN ExpandFrom_IgnoresVisible(ShowChildren(tree, tree[i].depth, i + 1), i + 1)
    ELSE ExpandFrom_IgnoresVisible(tree, i + 1)

\* outer loop of update_visibility_by_expansion, from node i on
RECURSIVE ExpandFrom(_, _)
ExpandFrom(tree, i) ==
    IF i > Len(tree) THEN tree
    ELSE IF tree[i].expanded /\ tree[i].visible
         THEN ExpandFrom(ShowChildren(tree, tree[i].depth, i + 1), i + 1)
    ELSE ExpandFrom(tree, i + 1)

update_visibility_by_expansion(tree) ==
    ExpandFrom([i \in 1..Len(tree) |-> [tree[i] EXCEPT !.visible = (i = 1)]], 1)

\* position of the first node whose path is the given one, 0 when there is none
FindNode(tree, path) ==
    IF \E i \in 1..Len(tree) : tree[i].path = path
    THEN CHOOSE i \in 1..Len(tree) :
            tree[i].path = path /\ \A j \in 1..(i - 1) : tree[j].path # path
    ELSE 0

\* mutant of toggle_node_expanded: visibility is not recomputed
toggle_node_expanded_NoRecompute(tree, path) ==
    LET i == FindNode(tree, path)
    IN  IF i > 0 THEN [tree EXCEPT ![i].expanded = ~tree[i].expanded] ELSE tree

toggle_node_expanded(tree, path) ==
    LET i == FindNode(tree, path)
        t == IF i > 0 THEN [tree EXCEPT ![i].expanded = ~tree[i].expanded] ELSE tree
    IN  update_visibility_by_expansion(t)

(***************************************************************************)
(* Derivation pipeline (build_intermediate_stage2_with_leaf_filter).       *)
(***************************************************************************)
\* number of bytes of a character in UTF-8
Utf8Len(c) == IF c = "U+952E" THEN 3 ELSE 1

\* &src[..idx]: the prefix of idx bytes; slicing inside a character panics
RECURSIVE BytePrefix(_, _, _)
BytePrefix(src, idx, acc) ==
    IF idx = 0 THEN [ok |-> TRUE, s |-> acc]
    ELSE IF src = <<>> \/ Utf8Len(src[1]) > idx THEN [ok |-> FALSE, s |-> <<>>]
    ELSE BytePrefix(Tail(src), idx - Utf8Len(src[1]), Append(acc, src[1]))

\* the loop of derive_name_path: the (zero-based, counted in characters) place
\* of the last '.' met at bracket depth 0, -1 when there is none
RECURSIVE LastDot(_, _, _, _)
LastDot(src, i, depth, last_dot) ==
    IF i > Len(src) THEN last_dot
    ELSE CASE src[i] = "[" -> LastDot(src, i + 1, depth + 1, last_dot)
           [] src[i] = "]" -> LastDot(src, i + 1, depth - 1, last_dot)
           [] src[i] = "." /\ depth = 0 -> LastDot(src, i + 1, depth, i - 1)
           [] OTHER -> LastDot(src, i + 1, depth, last_dot)

NameSuffix == <<".", "n", "a", "m", "e">>

\* derive_name_path: Some(path), None, or a panic of the slice
derive_name_path(src) ==
    LET idx == LastDot(src, 1, 0, -1) IN
    IF idx < 0 THEN [kind |-> "none", path |-> <<>>]
    ELSE LET pre == BytePrefix(src, idx, <<>>)
         IN  IF pre.ok THEN [kind |-> "some", path |-> pre.s \o NameSuffix]
             ELSE [kind |-> "panic", path |-> <<>>]

\* Display of a Value (other.to_string()): compact JSON
RECURSIVE Compact(_)
RECURSIVE CompactItems(_, _)
Compact(v) ==
    CASE v.kind = "String" -> QuoteJson(v.str)
      [] v.kind = "Object" -> <<"{">> \o CompactItems(v, 1) \o <<"}">>
      [] v.kind = "Array" -> <<"[">> \o CompactItems(v, 1) \o <<"]">>
      [] OTHER -> v.str

CompactItems(v, i) ==
    IF i > Len(v.kids) THEN <<>>
    ELSE (IF v.kind = "Object" THEN QuoteJson(v.keys[i]) \o <<":">> ELSE <<>>)
         \o Compact(v.kids[i])
         \o (IF i < Len(v.kids) THEN <<",">> ELSE <<>>)
         \o CompactItems(v, i + 1)

\* the text of an optional resolved value: a string as it is, any other value
\* in compact JSON, nothing for None
value_str(opt) ==
    IF ~opt.some THEN <<>>
    ELSE IF opt.v.kind = "String" THEN opt.v.str
    ELSE Compact(opt.v)

NoValue == [some |-> FALSE, v |-> NoDom]

\* dom.query(path) ... .into_iter().next().cloned(): error, or the first hit if any
first_value(dom, path) ==
    LET r == query(dom, path) IN
    IF r.err # "none" THEN [err |-> TRUE, opt |-> NoValue]
    ELSE IF r.hits = <<>> THEN [err |-> FALSE, opt |-> NoValue]
    ELSE [err |-> FALSE, opt |-> [some |-> TRUE, v |-> ValueAt(dom, r.hits[1])]]

should_include(node, filter, leaf_nodes_only) ==
    IF leaf_nodes_only
    THEN /\ node.visible
         /\ Contains(node.name, filter)
         /\ node.kind \in {"String", "Number", "Bool", "Null"}
    ELSE node.visible /\ (Contains(node.path, filter) \/ Contains(node.name, filter))

\* the selection loop: the qualifying nodes, in index order
RECURSIVE matched_nodes(_, _, _, _)
matched_nodes(tree, filter, leaf_nodes_only, i) ==
    IF i > Len(tree) THEN <<>>
    ELSE (IF should_include(tree[i], filter, leaf_nodes_only) THEN <<tree[i]>> ELSE <<>>)
         \o matched_nodes(tree, filter, leaf_nodes_only, i + 1)

NameWord == <<"n", "a", "m", "e">>

\* the addresses the cache is filled for: each matched node's own, and the
\* derived one of every node not itself called "name"
paths_to_query(matched) ==
    {matched[i].path : i \in 1..Len(matched)}
    \cup {derive_name_path(matched[i].path).path :
            i \in {j \in 1..Len(matched) :
                     /\ matched[j].name # NameWord
                     /\ derive_name_path(matched[j].path).kind = "some"}}

\* the names of the members of the product
K_source_path == <<"s", "o", "u", "r", "c", "e", "_", "p", "a", "t", "h">>

K_name_path == <<"n", "a", "m", "e", "_", "p", "a", "t", "h">>

K_field_name == <<"f", "i", "e", "l", "d", "_", "n", "a", "m", "e">>

K_name_field_value ==
    <<"n", "a", "m", "e", "_", "f", "i", "e", "l", "d", "_", "v", "a", "l", "u", "e">>

K_seq == <<"s", "e", "q">>

K_stage == <<"s", "t", "a", "g", "e">>

K_filter == <<"f", "i", "l", "t", "e", "r">>

K_count == <<"c", "o", "u", "n", "t">>

K_items == <<"i", "t", "e", "m", "s">>

StageName == <<"i", "n", "t", "e", "r", "m", "e", "d", "i", "a", "t", "e", "2">>

\* json!({ ... }): an object built by inserting the members one by one
RECURSIVE JsonObject(_, _)
JsonObject(keys, kids) ==
    IF keys = <<>> THEN Obj(<<>>, <<>>)
    ELSE MapInsert(JsonObject(SubSeq(keys, 1, Len(keys) - 1), SubSeq(kids, 1, Len(kids) - 1)),
                   keys[Len(keys)], kids[Len(kids)])

\* the item of one matched node, before its seq is added
item_of(dom, node) ==
    LET current_value_opt == first_value(dom, node.path).opt
        d == derive_name_path(node.path)
        name_path == IF node.name = NameWord THEN node.path
                     ELSE IF d.kind = "some" THEN d.path
                     ELSE node.path
        name_value_opt == IF node.name = NameWord THEN current_value_opt
                          ELSE IF d.kind = "some" THEN first_value(dom, d.path).opt
                          ELSE NoValue
    IN  JsonObject(<<K_source_path, K_name_path, NameWord, K_field_name, K_name_field_value>>,
                   <<Str(node.path), Str(name_path), Str(value_str(current_value_opt)),
                     Str(node.name), Str(value_str(name_value_opt))>>)

\* mutant of with_seq: seq counts from one
with_seq_FromOne(items) ==
    [i \in 1..Len(items) |-> MapInsert(items[i], K_seq, Num(DecChars(i)))]

\* items.into_iter().enumerate(): seq is the zero-based position
with_seq(items) ==
    [i \in 1..Len(items) |-> MapInsert(items[i], K_seq, Num(DecChars(i - 1)))]

\* mutant of Run: a checkpoint repeated in a row is reported once
Run_RepeatsMerged(err, text, progress) ==
    [err |-> err, text |-> text,
     progress |-> SelectSeq([i \in 1..Len(progress) |->
                                IF i > 1 /\ progress[i] = progress[i - 1] THEN 0
                                ELSE progress[i]],
                            LAMBDA x : x # 0)]

\* the result of a run: the error ("none" for Ok), the returned text, and the
\* checkpoints (in tenths) the progress callback was invoked with
Run(err, text, progress) == [err |-> err, text |-> text, progress |-> progress]

build_intermediate_stage2_with_leaf_filter(st, filter, leaf_nodes_only) ==
    IF Trim(filter) = <<>> THEN Run("none", <<>>, <<>>)
    ELSE IF st.dom = NoDom THEN Run("State", <<>>, <<1>>)
    ELSE LET matched == matched_nodes(st.tree_flat, filter, leaf_nodes_only, 1)
             panics == \E i \in 1..Len(matched) :
                          /\ matched[i].name # NameWord
                          /\ derive_name_path(matched[i].path).kind = "panic"
         IN  IF panics THEN Run("panic", <<>>, <<1, 5>>)
             ELSE IF \E q \in paths_to_query(matched) : first_value(st.dom, q).err
                  THEN Run("JsonPath", <<>>, <<1, 5, 5>>)
             ELSE LET items == [i \in 1..Len(matched) |-> item_of(st.dom, matched[i])]
                      items_with_seq == with_seq(items)
                      result == JsonObject(<<K_stage, K_filter, K_count, K_items>>,
                                           <<Str(StageName), Str(filter),
                                             Num(DecChars(Len(items_with_seq))),
                                             Arr(items_with_seq)>>)
                  IN  Run("none", to_string_pretty(result), <<1, 5, 5, 9, 10>>)

build_intermediate_stage2(st, filter) ==
    build_intermediate_stage2_with_leaf_filter(st, filter, FALSE)

(***************************************************************************)
(* Inputs of the model: the files that can be loaded, the replacement      *)
(* texts, the filter texts and the addresses handed to the operations.     *)
(***************************************************************************)
\* {"a": {"b": 1}}
DocAB == Obj(<< <<"a">> >>, << Obj(<< <<"b">> >>, << Num(<<"1">>) >>) >>)

\* {"items": ["x", "y"]}
DocItems == Obj(<< <<"i", "t", "e", "m", "s">> >>, << Arr(<< Str(<<"x">>), Str(<<"y">>) >>) >>)

\* {"k": {"p/q": 1}, "k y": "v"}
DocKeys ==
    Obj(<< <<"k">>, <<"k", " ", "y">> >>,
        << Obj(<< <<"p", "/", "q">> >>, << Num(<<"1">>) >>), Str(<<"v">>) >>)

\* {"a":{"b":1}} written without whitespace
TextABCompact ==
    <<"{", "\"", "a", "\"", ":", "{", "\"", "b", "\"", ":", "1", "}", "}">>

\* {"a": x}
TextNotJson == <<"{", "\"", "a", "\"", ":", " ", "x", "}">>

File(text) == [readable |-> TRUE, text |-> text]

Unreadable == [readable |-> FALSE, text |-> <<>>]

\* the file system: path i names FileSystem[i]
FileSystem ==
    << File(TextABCompact), File(to_string_pretty(DocItems)),
       File(to_string_pretty(DocKeys)),
       File(TextNotJson), Unreadable >>

Paths == 1..Len(FileSystem)

\* what read_json_file returns for each path (the files do not change)
FileRead == [p \in Paths |-> read_json_file(FileSystem[p])]

\* mutant of load_file_read: the file locations are recorded before the file is read
load_file_read_PathFirst(st, p, r) ==
    IF r.err # "none"
    THEN [err |-> r.err, st |-> [st EXCEPT !.source_path = p, !.original_file_path = p]]
    ELSE [err |-> "none",
          st |-> [dom |-> r.v, tree_flat |-> build_shadow_tree(r.v),
                  source_path |-> p, original_file_path |-> p]]

\* load_file, given what read_json_file(p) returned
load_file_read(st, p, r) ==
    IF r.err # "none" THEN [err |-> r.err, st |-> st]
    ELSE [err |-> "none",
          st |-> [dom |-> r.v, tree_flat |-> build_shadow_tree(r.v),
                  source_path |-> p, original_file_path |-> p]]

load_file(st, p) == load_file_read(st, p, FileRead[p])

\* "q"  (with its quotes)
TextQuoted == <<"\"", "q", "\"">>

\* {"profile":{"bio":"x"}}
TextNested ==
    <<"{", "\"", "p", "r", "o", "f", "i", "l", "e", "\"", ":", "{", "\"", "b", "i", "o",
      "\"", ":", "\"", "x", "\"", "}", "}">>

\* {a: 1   (an unterminated object; no character that JSON escapes)
TextUnterminated == <<"{", "a", ":", " ", "1">>

NewTexts == {TextQuoted, TextNested, TextUnterminated}

FilterTexts == {<<>>, <<" ">>, <<"a">>}

\* $.zz : a well-formed address that matches nothing in any document
AddrNoMatch == <<"$", ".", "z", "z">>

\* $zz : not an address expression
AddrInvalid == <<"$", "z", "z">>

(***************************************************************************)
(* The session.                                                            *)
(***************************************************************************)
VARIABLES dom, tree_flat, source_path, original_file_path, last, mutations,
          preview_full_text, final_full_text, disk, workers, events

vars == <<dom, tree_flat, source_path, original_file_path, last, mutations,
          preview_full_text, final_full_text, disk, workers, events>>

\* the state of the view-model bridge: the stored intermediate and final
\* products, the files on disk, the write-back threads, and the closures
\* posted to the event loop
bridge_vars == <<preview_full_text, final_full_text, disk, workers, events>>

State ==
    [dom |-> dom, tree_flat |-> tree_flat, source_path |-> source_path,
     original_file_path |-> original_file_path]

\* the addresses the operations are called with: those of the index, and two more
Addresses == {tree_flat[i].path : i \in 1..Len(tree_flat)} \cup {AddrNoMatch, AddrInvalid}

\* the call that produced the current state, and its outcome; out is the text
\* a read operation returned, progress the checkpoints it reported
Call(op, path, text, err, why) ==
    [op |-> op, path |-> path, text |-> text, err |-> err, why |-> why,
     out |-> <<>>, progress |-> <<>>]

Install(st) ==
    /\ dom' = st.dom
    /\ tree_flat' = st.tree_flat
    /\ source_path' = st.source_path
    /\ original_file_path' = st.original_file_path

\* a new session and a new bridge, with the given files on disk
NewSession(files) ==
    /\ dom = EmptyState.dom
    /\ tree_flat = EmptyState.tree_flat
    /\ source_path = EmptyState.source_path
    /\ original_file_path = EmptyState.original_file_path
    /\ last = Call("new", <<>>, <<>>, "none", "")
    /\ mutations = 0
    /\ preview_full_text = <<>>
    /\ final_full_text = <<>>
    /\ disk = files
    /\ workers = <<>>
    /\ events = <<>>

Init == NewSession(FileSystem)

Load(p) ==
    LET r == load_file(State, p) IN
    /\ Install(r.st)
    /\ last' = Call("load", <<>>, <<>>, r.err, "")
    /\ UNCHANGED mutations
    /\ UNCHANGED bridge_vars

Mutate(json_path, new_json) ==
    LET r == update_node_from_str(State, json_path, new_json) IN
    /\ mutations < MaxMutations
    /\ Install(r.st)
    /\ last' = Call("mutate", json_path, new_json, r.err, r.why)
    /\ mutations' = IF r.err = "none" THEN mutations + 1 ELSE mutations
    /\ UNCHANGED bridge_vars

ToggleExpanded(path) ==
    /\ tree_flat' = toggle_node_expanded(tree_flat, path)
    /\ last' = Call("toggle", path, <<>>, "none", "")
    /\ UNCHANGED <<dom, source_path, original_file_path, mutations>>
    /\ UNCHANGED bridge_vars

RecomputeVisibility ==
    /\ tree_flat' = update_visibility_by_expansion(tree_flat)
    /\ last' = Call("recompute", <<>>, <<>>, "none", "")
    /\ UNCHANGED <<dom, source_path, original_file_path, mutations>>
    /\ UNCHANGED bridge_vars

ApplyFilter(filter) ==
    /\ tree_flat' = apply_search_filter(tree_flat, filter)
    /\ last' = Call("filter", <<>>, filter, "none", "")
    /\ UNCHANGED <<dom, source_path, original_file_path, mutations>>
    /\ UNCHANGED bridge_vars

Next ==
    \/ \E p \in Paths : Load(p)
    \/ \E a \in Addresses, t \in NewTexts : Mutate(a, t)
    \/ \E a \in Addresses : ToggleExpanded(a)
    \/ RecomputeVisibility
    \/ \E f \in FilterTexts : ApplyFilter(f)

Spec == Init /\ [][Next]_vars

(***************************************************************************)
(* The builder on many documents: a fresh session loads one file whose     *)
(* content is a document with member names of every shape (plain, with a   *)
(* dot, a space, a dash, a single quote, a backslash, a bracket, a slash,  *)
(* starting with a digit, empty, non-ASCII), nested in objects and arrays. *)
(***************************************************************************)
KeyPlain == <<"a">>

KeyDot == <<"a", ".", "b">>

KeySpace == <<"a", " ", "b">>

KeyDash == <<"a", "-", "b">>

KeyQuote == <<"a", "'">>

KeyBackslash == <<"a", "\\">>

KeyBracket == <<"a", "]">>

KeySlash == <<"a", "/", "b">>

KeyDigit == <<"1">>

KeyEmpty == <<>>

KeyNonAscii == <<"U+952E">>

MemberNames ==
    {KeyPlain, <<"b">>, KeyDot, KeySpace, KeyDash, KeyQuote, KeyBackslash, KeyBracket,
     KeySlash, KeyDigit, KeyEmpty, KeyNonAscii}

\* the values a first member takes: scalars, arrays, and one-member objects
MemberValues ==
    {Num(<<"1">>), Str(<<"x">>), Arr(<< Num(<<"1">>), Str(<<"x">>) >>),
     Arr(<< Arr(<< Null >>) >>)}
    \cup {Obj(<<k>>, << Num(<<"1">>) >>) : k \in MemberNames}

\* objects with one member, or with two members of different names
BuildDocs ==
    {Obj(<<k>>, <<v>>) : k \in MemberNames, v \in MemberValues}
    \cup {Obj(<<q[1], q[2]>>, <<v, Bool(<<"t", "r", "u", "e">>)>>) :
            q \in {n \in MemberNames \X MemberNames : n[1] # n[2]}, v \in MemberValues}

\* the path of the file a document of BuildDocs is read from
DocPath == Len(FileSystem) + 1

\* a fresh session loads the file that holds document d
LoadDocument(d) ==
    LET r == load_file_read(State, DocPath, read_json_file(File(to_string_pretty(d)))) IN
    /\ dom = NoDom
    /\ Install(r.st)
    /\ last' = Call("load", <<>>, <<>>, r.err, "")
    /\ UNCHANGED mutations
    /\ UNCHANGED bridge_vars

NextBuild == \E d \in BuildDocs : LoadDocument(d)

SpecBuild == Init /\ [][NextBuild]_vars

(***************************************************************************)
(* The read operations: a session with one document, whose nodes are       *)
(* expanded, collapsed and filtered, is read by extract and by the         *)
(* derivation pipeline.                                                    *)
(***************************************************************************)
\* {"x": {"name": "A"}, "y": {"name": "B"}}
DocXY ==
    Obj(<< <<"x">>, <<"y">> >>,
        << Obj(<<NameWord>>, << Str(<<"A">>) >>), Obj(<<NameWord>>, << Str(<<"B">>) >>) >>)

KeyTitle == <<"t", "i", "t", "l", "e">>

\* {"items": [{"name": "N", "title": "T"}]}
DocTitle ==
    Obj(<<K_items>>,
        << Arr(<< Obj(<<NameWord, KeyTitle>>, << Str(<<"N">>), Str(<<"T">>) >>) >>) >>)

\* {"<U+952E>": {"t": 1}}
DocNonAscii == Obj(<<KeyNonAscii>>, << Obj(<< <<"t">> >>, << Num(<<"1">>) >>) >>)

\* {"<U+952E>": {"<U+952E>": {"t": 1}}}
DocNonAsciiDeep == Obj(<<KeyNonAscii>>, <<DocNonAscii>>)

\* {"a]": {"t": 1}}
DocBracket == Obj(<<KeyBracket>>, << Obj(<< <<"t">> >>, << Num(<<"1">>) >>) >>)

QueryDocs == {DocXY, DocTitle, DocNonAscii, DocNonAsciiDeep, DocBracket}

QueryFilters == {<<>>, NameWord, <<"t">>}

\* the filters of the derivation pipeline: those, and one of blanks only
DeriveFilters == QueryFilters \cup {<<" ">>}

\* the addresses of the nodes that have something to expand
ContainerAddresses ==
    {tree_flat[i].path : i \in {j \in 1..Len(tree_flat) :
                                   tree_flat[j].kind \in {"Object", "Array"}}}

Extract(json_path) ==
    LET r == extract_subtree_pretty(State, json_path) IN
    /\ last' = [Call("extract", json_path, <<>>, r.err, "") EXCEPT !.out = r.text]
    /\ UNCHANGED <<dom, tree_flat, source_path, original_file_path, mutations>>
    /\ UNCHANGED bridge_vars

BuildIntermediate(filter, leaf_nodes_only) ==
    LET r == build_intermediate_stage2_with_leaf_filter(State, filter, leaf_nodes_only) IN
    /\ last' = [Call("derive", <<>>, filter, r.err,
                     IF leaf_nodes_only THEN "leaf" ELSE "all")
                  EXCEPT !.out = r.text, !.progress = r.progress]
    /\ UNCHANGED <<dom, tree_flat, source_path, original_file_path, mutations>>
    /\ UNCHANGED bridge_vars

NextQuery ==
    \/ \E d \in QueryDocs : LoadDocument(d)
    \/ \E a \in ContainerAddresses : ToggleExpanded(a)
    \/ \E f \in QueryFilters : ApplyFilter(f)
    \/ \E a \in Addresses : Extract(a)
    \/ \E f \in DeriveFilters, leaf \in BOOLEAN : BuildIntermediate(f, leaf)

SpecQuery == Init /\ [][NextQuery]_vars

(***************************************************************************)
(* The view-model bridge (main.rs): the handlers that keep the stored      *)
(* intermediate product (preview_full_text) and final product              *)
(* (final_full_text).  A handler that defers its work with spawn_local     *)
(* runs it on the same thread without suspending, so handler and task are  *)
(* one step.                                                               *)
(***************************************************************************)
\* Value::get(key): the member of an object, None for any other value
Get(v, k) ==
    IF v.kind = "Object" /\ KeyIndex(v, k) > 0
    THEN [some |-> TRUE, v |-> v.kids[KeyIndex(v, k)]]
    ELSE NoValue

\* v.get("items").and_then(|x| x.as_array())
items_array(v) ==
    LET x == Get(v, K_items) IN
    IF x.some /\ x.v.kind = "Array" THEN [some |-> TRUE, items |-> x.v.kids]
    ELSE [some |-> FALSE, items |-> <<>>]

\* item.get("seq").and_then(|s| s.as_u64()).unwrap_or(0), then seq.to_string()
seq_text(item) ==
    LET x == Get(item, K_seq) IN
    IF /\ x.some
       /\ x.v.kind = "Number"
       /\ \A i \in 1..Len(x.v.str) : x.v.str[i] \in DigitSet
    THEN x.v.str
    ELSE <<"0">>

\* item.get("name").and_then(|n| n.as_str()).unwrap_or("")
name_val(item) ==
    LET x == Get(item, NameWord) IN
    IF x.some /\ x.v.kind = "String" THEN x.v.str ELSE <<>>

\* mutant of collect_out: the entries are kept in the order of the items
RECURSIVE collect_out_ItemOrder(_, _)
collect_out_ItemOrder(items, n) ==
    IF n = 0 THEN Obj(<<>>, <<>>)
    ELSE LET out == collect_out_ItemOrder(items, n - 1) IN
         Obj(Append(out.keys, seq_text(items[n])),
             Append(out.kids, Str(name_val(items[n]))))

\* the BTreeMap out after the first n items have been inserted
RECURSIVE collect_out(_, _)
collect_out(items, n) ==
    IF n = 0 THEN Obj(<<>>, <<>>)
    ELSE MapInsert(collect_out(items, n - 1), seq_text(items[n]), Str(name_val(items[n])))

\* the projection of an intermediate product text: parse it, re-key its
\* items, pretty-print the map
final_product(stage2_text) ==
    LET x == from_str(stage2_text) IN
    IF ~x.ok THEN [err |-> "Parse", text |-> <<>>]
    ELSE LET items == items_array(x.v).items
         IN  [err |-> "none", text |-> to_string_pretty(collect_out(items, Len(items)))]

\* the filter field of the window is an input of the handler
HandleCopyAllPressed(filter) ==
    \E r \in {build_intermediate_stage2(State, filter)} :
    /\ preview_full_text' = IF Trim(filter) # <<>> /\ r.err = "none" THEN r.text
                            ELSE preview_full_text
    /\ last' = Call("generate", <<>>, filter,
                    IF Trim(filter) = <<>> THEN "Empty" ELSE r.err, "")
    /\ UNCHANGED <<dom, tree_flat, source_path, original_file_path, mutations>>
    /\ UNCHANGED <<final_full_text, disk, workers, events>>

HandleTransformPressed ==
    \E r \in {final_product(preview_full_text)} :
    /\ final_full_text' = IF Trim(preview_full_text) # <<>> /\ r.err = "none" THEN r.text
                          ELSE final_full_text
    /\ last' = Call("transform", <<>>, <<>>,
                    IF Trim(preview_full_text) = <<>> THEN "Empty" ELSE r.err, "")
    /\ UNCHANGED <<dom, tree_flat, source_path, original_file_path, mutations>>
    /\ UNCHANGED <<preview_full_text, disk, workers, events>>

HandleOneClickFinalProduct(filter) ==
    \E r \in {build_intermediate_stage2(State, filter)} :
    \E f \in {final_product(r.text)} :
    LET made == Trim(filter) # <<>> /\ r.err = "none" IN
    /\ preview_full_text' = IF made THEN r.text ELSE preview_full_text
    /\ final_full_text' = IF made /\ f.err = "none" THEN f.text ELSE final_full_text
    /\ last' = Call("one click", <<>>, filter,
                    IF Trim(filter) = <<>> THEN "Empty"
                    ELSE IF r.err # "none" THEN r.err ELSE f.err, "")
    /\ UNCHANGED <<dom, tree_flat, source_path, original_file_path, mutations>>
    /\ UNCHANGED <<disk, workers, events>>

(***************************************************************************)
(* The projection on products of every size: a fresh session loads an      *)
(* array of strings, derives the product of its elements and re-keys it.   *)
(***************************************************************************)
\* the longest array
MaxItems == 11

\* ["v0", "v1", ...] with n elements
ArrayDoc(n) == Arr([i \in 1..n |-> Str(<<"v">> \o DecChars(i - 1))])

TransformDocs == {ArrayDoc(n) : n \in 0..MaxItems}

\* "[" is in the name of every element, "1" in those of some
TransformFilters == {<<"[">>, <<"1">>}

NextTransform ==
    \/ \E d \in TransformDocs : LoadDocument(d)
    \/ \E f \in TransformFilters : HandleCopyAllPressed(f)
    \/ HandleTransformPressed
    \/ \E f \in TransformFilters : HandleOneClickFinalProduct(f)

SpecTransform == Init /\ [][NextTransform]_vars

(***************************************************************************)
(* The write-back of uploaded corrections: the handler, on the event loop, *)
(* hands the upload, the stored intermediate product, a clone of the       *)
(* document and the file location to a new thread; the thread edits its    *)
(* clone entry by entry, writes it to the file and posts a reload to the   *)
(* event loop.                                                             *)
(***************************************************************************)
\* how many uploads one behaviour of the write-back sessions may start
MaxUploads == 2

\* str::parse::<usize>: an optional '+', then one or more decimal digits
parse_usize(key) ==
    LET d == IF key # <<>> /\ key[1] = "+" THEN Tail(key) ELSE key IN
    IF d # <<>> /\ \A i \in 1..Len(d) : d[i] \in DigitSet
    THEN [ok |-> TRUE, n |-> ParseNat(d)]
    ELSE [ok |-> FALSE, n |-> 0]

RECURSIVE compare_json_structure(_, _)
compare_json_structure(json1, json2) ==
    IF json1.kind # json2.kind THEN FALSE
    ELSE IF json1.kind = "Object"
         THEN /\ Len(json1.kids) = Len(json2.kids)
              /\ \A i \in 1..Len(json1.keys) :
                    /\ KeyIndex(json2, json1.keys[i]) > 0
                    /\ compare_json_structure(json1.kids[i],
                                              json2.kids[KeyIndex(json2, json1.keys[i])])
    ELSE IF json1.kind = "Array"
         THEN /\ Len(json1.kids) = Len(json2.kids)
              /\ \A i \in 1..Len(json1.kids) :
                    compare_json_structure(json1.kids[i], json2.kids[i])
    ELSE TRUE

\* TRUE for Ok(())
validate_json_format(upload_content, final_product_text) ==
    \/ Trim(final_product_text) = <<>>
    \/ /\ from_str(upload_content).ok
       /\ from_str(final_product_text).ok
       /\ compare_json_structure(from_str(upload_content).v,
                                 from_str(final_product_text).v)

\* mutant of new_value_str: null is stored as its text
new_value_str_NullAsText(new_value) ==
    IF new_value.kind = "String"
    THEN [skip |-> Trim(new_value.str) = <<>>, text |-> new_value.str]
    ELSE IF new_value.kind \in {"Bool", "Number", "Null"}
         THEN [skip |-> FALSE, text |-> new_value.str]
    ELSE [skip |-> TRUE, text |-> <<>>]

\* the text a correction is stored as; skip for the values that are rejected
new_value_str(new_value) ==
    IF new_value.kind = "String"
    THEN [skip |-> Trim(new_value.str) = <<>>, text |-> new_value.str]
    ELSE IF new_value.kind \in {"Bool", "Number"}
         THEN [skip |-> FALSE, text |-> new_value.str]
    ELSE [skip |-> TRUE, text |-> <<>>]

update_json_by_path(json_data, json_path, new_value) ==
    LET q == query_only_path(json_data, json_path) IN
    IF q.err # "none" \/ q.paths = <<>> THEN [ok |-> FALSE, v |-> json_data]
    ELSE LET slot == reference_mut(json_data, q.paths[1]) IN
         IF ~slot.found THEN [ok |-> FALSE, v |-> json_data]
         ELSE [ok |-> TRUE, v |-> ReplaceAt(json_data, slot.pos, Str(new_value))]

\* the thread started by the handler: what it was given (original_json is the
\* clone as handed over, json_data the clone as edited so far), where it is
\* (pc), and the locals of process_writeback_in_background
WritebackThread(content, stage2, json, path) ==
    [writeback_content |-> content, intermediate_stage2 |-> stage2,
     original_json |-> json, original_file_path |-> path,
     pc |-> "start", writeback_obj |-> NoDom, items |-> <<>>, json_data |-> json,
     next |-> 1, modified_count |-> 0, skipped_count |-> 0]

\* one iteration of the loop over the entries of the upload
process_entry(w) ==
    LET key == w.writeback_obj.keys[w.next]
        new_value == w.writeback_obj.kids[w.next]
        seq == parse_usize(key)
        skipped == [w EXCEPT !.next = @ + 1, !.skipped_count = @ + 1]
    IN  IF ~seq.ok \/ seq.n >= Len(w.items) THEN skipped
        ELSE LET item_path_opt == Get(w.items[seq.n + 1], K_source_path)
                 nv == new_value_str(new_value)
             IN  IF ~(item_path_opt.some /\ item_path_opt.v.kind = "String") \/ nv.skip
                 THEN skipped
                 ELSE LET u == update_json_by_path(w.json_data, item_path_opt.v.str, nv.text)
                      IN  IF u.ok
                          THEN [w EXCEPT !.next = @ + 1, !.modified_count = @ + 1,
                                         !.json_data = u.v]
                          ELSE skipped

\* handle_load_file: load, then expand the root
HandleLoadFile(p) ==
    \E r \in {load_file_read(State, p, read_json_file(disk[p]))} :
    /\ Install(IF r.err = "none" /\ r.st.tree_flat # <<>>
               THEN [r.st EXCEPT !.tree_flat =
                        update_visibility_by_expansion(
                            [r.st.tree_flat EXCEPT ![1].expanded = TRUE])]
               ELSE r.st)
    /\ last' = Call("load", <<>>, <<>>, r.err, "")
    /\ UNCHANGED mutations
    /\ UNCHANGED bridge_vars

\* the upload is the content of the file the user picked; mutations counts
\* the uploads
HandleUploadWritebackFile(content) ==
    /\ IF validate_json_format(content, final_full_text)
       THEN /\ workers' = Append(workers, WritebackThread(content, preview_full_text,
                                                         dom, original_file_path))
            /\ last' = Call("upload", <<>>, <<>>, "none", "")
       ELSE /\ UNCHANGED workers
            /\ last' = Call("upload", <<>>, <<>>, "Format", "")
    /\ mutations' = mutations + 1
    /\ UNCHANGED <<dom, tree_flat, source_path, original_file_path>>
    /\ UNCHANGED <<preview_full_text, final_full_text, disk, events>>

UnchangedByThreads ==
    UNCHANGED <<dom, tree_flat, source_path, original_file_path, last, mutations,
                preview_full_text, final_full_text>>

\* the threads that remain when thread i has returned
Returned(i) == SubSeq(workers, 1, i - 1) \o SubSeq(workers, i + 1, Len(workers))

\* the thread parses the upload and the intermediate product
WorkerStart(i) ==
    /\ workers[i].pc = "start"
    /\ \E c \in {from_str(workers[i].writeback_content)} :
       \E st \in {from_str(workers[i].intermediate_stage2)} :
          workers' =
              IF \/ ~c.ok
                 \/ c.v.kind # "Object"
                 \/ ~st.ok
                 \/ ~items_array(st.v).some
                 \/ workers[i].original_json = NoDom
              THEN Returned(i)
              ELSE [workers EXCEPT ![i].pc = "loop", ![i].writeback_obj = c.v,
                                   ![i].items = items_array(st.v).items]
    /\ UNCHANGED <<disk, events>>
    /\ UnchangedByThreads

WorkerEntry(i) ==
    /\ workers[i].pc = "loop"
    /\ workers[i].next <= Len(workers[i].writeback_obj.keys)
    /\ workers' = [workers EXCEPT ![i] = process_entry(@)]
    /\ UNCHANGED <<disk, events>>
    /\ UnchangedByThreads

\* mutant of WorkerWrite: the file is written once the first entry is done
WorkerWrite_AfterFirstEntry(i) ==
    /\ workers[i].pc = "loop"
    /\ workers[i].next > 1
    /\ disk' = [disk EXCEPT ![workers[i].original_file_path] =
                   File(to_string_pretty(workers[i].json_data))]
    /\ workers' = [workers EXCEPT ![i].pc = "saved"]
    /\ UNCHANGED events
    /\ UnchangedByThreads

\* std::fs::write(&original_path, json_string)
WorkerWrite(i) ==
    /\ workers[i].pc = "loop"
    /\ workers[i].next > Len(workers[i].writeback_obj.keys)
    /\ IF workers[i].original_file_path # NoPath
       THEN /\ disk' = [disk EXCEPT ![workers[i].original_file_path] =
                           File(to_string_pretty(workers[i].json_data))]
            /\ workers' = [workers EXCEPT ![i].pc = "saved"]
       ELSE /\ UNCHANGED disk
            /\ workers' = Returned(i)
    /\ UNCHANGED events
    /\ UnchangedByThreads

\* invoke_from_event_loop(... invoke_reload_file_after_writeback(path) ...)
WorkerPost(i) ==
    /\ workers[i].pc = "saved"
    /\ events' = Append(events, workers[i].original_file_path)
    /\ workers' = Returned(i)
    /\ UNCHANGED disk
    /\ UnchangedByThreads

\* the event loop runs the oldest posted closure
HandleReloadFileAfterWriteback ==
    /\ events # <<>>
    /\ \E r \in {load_file_read(State, Head(events), read_json_file(disk[Head(events)]))} :
          /\ Install(r.st)
          /\ last' = Call("reload", <<>>, <<>>, r.err, "")
    /\ events' = Tail(events)
    /\ UNCHANGED <<mutations, preview_full_text, final_full_text, disk, workers>>

KeyNick == <<"n", "i", "c", "k">>

\* {"name": "A", "nick": "B"}
DocNames == Obj(<<NameWord, KeyNick>>, << Str(<<"A">>), Str(<<"B">>) >>)

\* {"name": "C"}
DocName == Obj(<<NameWord>>, << Str(<<"C">>) >>)

\* the files of the write-back sessions: path 1 holds DocNames, path 2 DocName
BridgeFiles == << File(to_string_pretty(DocNames)), File(to_string_pretty(DocName)) >>

\* "n" is in the names of the members of both documents, which the expanded
\* root shows
BridgeFilters == {<<"n">>}

\* {"0": "P", "1": "Q"}
UploadStrings == Obj(<< <<"0">>, <<"1">> >>, << Str(<<"P">>), Str(<<"Q">>) >>)

\* the threads
Threads == DOMAIN workers

\* two documents, one upload file, uploaded twice at most
NextBridge ==
    \/ \E p \in DOMAIN disk : HandleLoadFile(p)
    \/ \E f \in BridgeFilters : HandleCopyAllPressed(f)
    \/ mutations < MaxUploads /\ HandleUploadWritebackFile(to_string_pretty(UploadStrings))
    \/ \E i \in Threads : WorkerStart(i)
    \/ \E i \in Threads : WorkerEntry(i)
    \/ \E i \in Threads : WorkerWrite(i)
    \/ \E i \in Threads : WorkerPost(i)
    \/ HandleReloadFileAfterWriteback

SpecBridge == NewSession(BridgeFiles) /\ [][NextBridge]_vars

\* {"+1": 7, "0": " ", "k": "S"}
UploadMixed ==
    Obj(<< <<"+", "1">>, <<"0">>, <<"k">> >>, << Num(<<"7">>), Str(<<" ">>), Str(<<"S">>) >>)

\* {"0": null, "1": true, "7": "R"}
UploadRejected ==
    Obj(<< <<"0">>, <<"1">>, <<"7">> >>,
        << Null, Bool(<<"t", "r", "u", "e">>), Str(<<"R">>) >>)

\* {"0": [], "1": {}}
UploadStructured ==
    Obj(<< <<"0">>, <<"1">> >>, << Arr(<<>>), Obj(<<>>, <<>>) >>)

\* the upload files: four objects, and one that is an array
Uploads ==
    {to_string_pretty(u) :
        u \in {UploadStrings, UploadMixed, UploadRejected, UploadStructured,
                Arr(<< Str(<<"P">>) >>)}}

\* every upload file, MaxMutations uploads at most
NextWriteback ==
    \/ \E p \in DOMAIN disk : HandleLoadFile(p)
    \/ \E f \in BridgeFilters : HandleCopyAllPressed(f)
    \/ HandleTransformPressed
    \/ \E c \in Uploads : mutations < MaxMutations /\ HandleUploadWritebackFile(c)
    \/ \E i \in Threads : WorkerStart(i)
    \/ \E i \in Threads : WorkerEntry(i)
    \/ \E i \in Threads : WorkerWrite(i)
    \/ \E i \in Threads : WorkerPost(i)
    \/ HandleReloadFileAfterWriteback

SpecWriteback == NewSession(BridgeFiles) /\ [][NextWriteback]_vars

(***************************************************************************)
(* Field classifier (detect_english_fields).                               *)
(***************************************************************************)
\* detect_english_fields keeps at most this many fields
MaxFields == 20

\* str::len: the number of bytes of a text
RECURSIVE ByteLen(_)
ByteLen(s) == IF s = <<>> THEN 0 ELSE Utf8Len(s[1]) + ByteLen(Tail(s))

\* &s[idx..]: the text after the first idx bytes; slicing inside a character
\* panics
RECURSIVE ByteSuffix(_, _)
ByteSuffix(s, idx) ==
    IF idx = 0 THEN [ok |-> TRUE, s |-> s]
    ELSE IF s = <<>> \/ Utf8Len(s[1]) > idx THEN [ok |-> FALSE, s |-> <<>>]
    ELSE ByteSuffix(Tail(s), idx - Utf8Len(s[1]))

\* char::is_ascii_alphabetic
is_ascii_alphabetic(c) == c \in LowerSet \cup UpperSet

\* char::is_ascii_digit
is_ascii_digit(c) == c \in DigitSet

\* s.matches(c).count(), s.chars().filter(..).count()
CountIn(s, cs) == Cardinality({i \in 1..Len(s) : s[i] \in cs})

\* part.chars().all(|c| c.is_ascii_digit())
AllDigits(part) == \A i \in 1..Len(part) : is_ascii_digit(part[i])

\* str::starts_with
StartsWith(s, pre) == Len(s) >= Len(pre) /\ SubSeq(s, 1, Len(pre)) = pre

\* str::to_lowercase of the characters of the model
ToLower(s) ==
    [i \in 1..Len(s) |->
        IF s[i] \in UpperSet THEN CodeOrder[CharCode(s[i]) + CharCode("a") - CharCode("A")]
        ELSE s[i]]

is_time_format(s) ==
    LET len == ByteLen(s)
        has(c) == CountIn(s, {c}) > 0
        dparts == Split(s, "-", <<>>)
        tparts == Split(s, ":", <<>>)
    IN  IF len < 8 \/ len > 30 THEN FALSE
        ELSE IF ~(has("-") \/ has(":") \/ has("T") \/ has("Z")) THEN FALSE
        ELSE IF has("T") /\ has("-") /\ has(":") THEN TRUE
        ELSE IF /\ CountIn(s, {"-"}) = 2 /\ len >= 8 /\ len <= 12
                /\ Len(dparts) = 3
                /\ ByteLen(dparts[1]) = 4 /\ AllDigits(dparts[1])
                /\ ByteLen(dparts[2]) = 2 /\ AllDigits(dparts[2])
                /\ ByteLen(dparts[3]) = 2 /\ AllDigits(dparts[3])
             THEN TRUE
        ELSE IF /\ CountIn(s, {":"}) = 2 /\ len >= 6 /\ len <= 10
                /\ Len(tparts) = 3
                /\ \A i \in 1..Len(tparts) : AllDigits(tparts[i])
             THEN TRUE
        ELSE FALSE

is_version_format(s) ==
    LET len == ByteLen(s)
        version_str == IF StartsWith(s, <<"v">>) \/ StartsWith(s, <<"V">>)
                       THEN Tail(s) ELSE s
        dot_count == CountIn(version_str, {"."})
        parts == Split(version_str, ".", <<>>)
    IN  IF len < 3 \/ len > 20 THEN FALSE
        ELSE IF CountIn(s, {"."}) = 0 THEN FALSE
        ELSE IF dot_count < 1 \/ dot_count > 3 THEN FALSE
        ELSE IF Len(parts) >= 2 /\ Len(parts) <= 4
             THEN \A i \in 1..Len(parts) : parts[i] # <<>> /\ AllDigits(parts[i])
        ELSE FALSE

SchemeHttp == <<"h", "t", "t", "p", ":", "/", "/">>

SchemeHttps == <<"h", "t", "t", "p", "s", ":", "/", "/">>

SchemeFtp == <<"f", "t", "p", ":", "/", "/">>

SchemeFtps == <<"f", "t", "p", "s", ":", "/", "/">>

Localhost == <<"l", "o", "c", "a", "l", "h", "o", "s", "t">>

\* [panic, url]: panic when &s[protocol_end..] cuts a character in two
is_url_format(s) ==
    LET len == ByteLen(s)
        lower_s == ToLower(s)
        protocol_end == IF StartsWith(lower_s, SchemeHttps) \/ StartsWith(lower_s, SchemeFtps)
                        THEN 8 ELSE 7
        domain_part == ByteSuffix(s, protocol_end)
    IN  IF len < 7 \/ len > 2000 THEN [panic |-> FALSE, url |-> FALSE]
        ELSE IF /\ \/ StartsWith(lower_s, SchemeHttp) \/ StartsWith(lower_s, SchemeHttps)
                   \/ StartsWith(lower_s, SchemeFtp) \/ StartsWith(lower_s, SchemeFtps)
                /\ len > protocol_end
             THEN IF ~domain_part.ok THEN [panic |-> TRUE, url |-> FALSE]
                  ELSE [panic |-> FALSE,
                        url |-> \/ CountIn(domain_part.s, {"."}) > 0
                                \/ StartsWith(domain_part.s, Localhost)]
        ELSE [panic |-> FALSE, url |-> FALSE]

is_pure_english_field_DigitsAllowed(s) ==
    LET letter_count == CountIn(s, LowerSet \cup UpperSet)
        digit_count == CountIn(s, DigitSet)
    IN  /\ letter_count > 0
        /\ ~is_time_format(s)
        /\ ~is_version_format(s)
        /\ digit_count <= letter_count

is_pure_english_field(s) ==
    LET letter_count == CountIn(s, LowerSet \cup UpperSet)
        digit_count == CountIn(s, DigitSet)
    IN  IF ~\E i \in 1..Len(s) : is_ascii_alphabetic(s[i]) THEN FALSE
        ELSE IF is_time_format(s) THEN FALSE
        ELSE IF is_version_format(s) THEN FALSE
        ELSE IF digit_count > letter_count THEN FALSE
        ELSE \A i \in 1..Len(s) : is_ascii_alphabetic(s[i]) \/ s[i] \in {"_", "-"}

is_leaf_node_NotStrings(value) == value.kind \in {"Number", "Bool", "Null"}

is_leaf_node(value) == value.kind \in {"String", "Number", "Bool", "Null"}

\* what one member of an object adds to english_fields
collect_member(key, val, leaf_nodes_only) ==
    LET trimmed_key == Trim(key)
        trimmed_value == Trim(val.str)
        u == is_url_format(trimmed_value)
    IN  IF (~leaf_nodes_only \/ is_leaf_node(val)) /\ val.kind = "String"
           /\ trimmed_key # <<>>
           /\ ~is_time_format(trimmed_value) /\ ~is_version_format(trimmed_value)
        THEN [panic |-> u.panic,
              fields |-> IF u.url THEN {trimmed_value} ELSE {trimmed_key}]
        ELSE [panic |-> FALSE, fields |-> {}]

\* [panic, fields]: the HashSet english_fields after the walk of value
RECURSIVE extract_english_keys(_, _)
extract_english_keys(value, leaf_nodes_only) ==
    LET sub == [i \in 1..Len(value.kids) |->
                    extract_english_keys(value.kids[i], leaf_nodes_only)]
        own == [i \in 1..Len(value.kids) |->
                    IF value.kind = "Object"
                    THEN collect_member(value.keys[i], value.kids[i], leaf_nodes_only)
                    ELSE [panic |-> FALSE, fields |-> {}]]
    IN  IF value.kind \in {"Array", "Object"}
        THEN [panic |-> \E i \in 1..Len(value.kids) : sub[i].panic \/ own[i].panic,
              fields |-> UNION {sub[i].fields \cup own[i].fields : i \in 1..Len(value.kids)}]
        ELSE [panic |-> FALSE, fields |-> {}]

\* Vec::sort of distinct strings
RECURSIVE SortStrings(_)
SortStrings(S) ==
    IF S = {} THEN <<>>
    ELSE LET m == CHOOSE x \in S : \A y \in S \ {x} : LessStr(x, y)
         IN  <<m>> \o SortStrings(S \ {m})

\* Vec::truncate(MaxFields)
truncate(result) ==
    IF Len(result) > MaxFields THEN SubSeq(result, 1, MaxFields) ELSE result

\* [err, out]: err is "State" without a document, "panic" when the walk panics
detect_english_fields(st, leaf_nodes_only) ==
    IF st.dom = NoDom THEN [err |-> "State", out |-> <<>>]
    ELSE LET english_fields == extract_english_keys(st.dom, leaf_nodes_only)
             kept == {s \in english_fields.fields :
                         /\ ~(ByteLen(Trim(s)) < 2 \/ ByteLen(Trim(s)) > 50)
                         /\ is_pure_english_field(Trim(s))}
         IN  IF english_fields.panic THEN [err |-> "panic", out |-> <<>>]
             ELSE [err |-> "none", out |-> truncate(SortStrings(kept))]

(***************************************************************************)
(* The field classifier on many documents: a fresh session loads one       *)
(* document and the classifier runs on it, with and without the leaf flag. *)
(***************************************************************************)
Text(n, c) == [i \in 1..n |-> c]

\* member names and values of every kind the classifier tells apart, in the
\* order of their names
PoolNames ==
    << <<" ", "Z", "e", "d", " ">>, <<"a", "b">>, <<"a", "r", "r">>, <<"d", "a", "y">>,
       <<"k", "1">>, <<"n", "u", "m">>, <<"o", "b", "j">>, <<"u", "r", "l">>,
       <<"v", "e", "r">> >>

PoolValues ==
    << Str(<<"x">>), Str(<<"x">>),
       Arr(<< Obj(<< <<"e", "l", "-", "t">> >>, << Str(<<"x">>) >>), Str(<<"s">>) >>),
       Str(<<"2", "0", "2", "3", "-", "0", "1", "-", "0", "1">>),
       Str(<<"x">>), Num(<<"5">>),
       Obj(<< <<"a">>, <<"i", "n", "_", "n", "e", "r">> >>, << Str(<<"y">>), Str(<<"x">>) >>),
       Str(SchemeHttp \o <<"a", ".", "b">>),
       Str(<<"v", "1", ".", "2">>) >>

\* the members of the pool at the places S, in order
RECURSIVE PoolPick(_, _)
PoolPick(S, i) ==
    IF i > Len(PoolNames) THEN <<>>
    ELSE (IF i \in S THEN <<i>> ELSE <<>>) \o PoolPick(S, i + 1)

PoolDoc(S) ==
    LET at == PoolPick(S, 1) IN
    Obj([i \in 1..Len(at) |-> PoolNames[at[i]]], [i \in 1..Len(at) |-> PoolValues[at[i]]])

\* an object of n string members named fa, fb, ... and one named Top
ManyFields(n) ==
    Obj(<< <<"T", "o", "p">> >> \o [i \in 1..n |-> <<"f", CodeOrder[CharCode("a") + i - 1]>>],
        [i \in 1..(n + 1) |-> Str(<<"x">>)])

\* names of 50 and of 51 letters, and a non-ASCII name
LongNames ==
    Obj(<<Text(50, "a"), Text(51, "b"), KeyNonAscii>>,
        << Str(<<"x">>), Str(<<"x">>), Str(<<"x">>) >>)

\* a URL-shaped value whose first character after "ftp://" is not ASCII
UrlCut == Obj(<< <<"u">> >>, << Str(SchemeFtp \o <<"U+952E", ".", "b">>) >>)

DetectDocs ==
    {PoolDoc(S) : S \in SUBSET (1..Len(PoolNames))}
    \cup {ManyFields(n) : n \in (MaxFields - 2)..(MaxFields + 2)}
    \cup {LongNames, UrlCut}

\* a fresh session loads a file that read_json_file parses to the value d
LoadParsed(d) ==
    \E r \in {load_file_read(State, DocPath, [err |-> "none", v |-> d])} :
        /\ dom = NoDom
        /\ Install(r.st)
        /\ last' = Call("load", <<>>, <<>>, r.err, "")
        /\ UNCHANGED mutations
        /\ UNCHANGED bridge_vars

DetectEnglishFields(leaf_nodes_only) ==
    \E r \in {detect_english_fields(State, leaf_nodes_only)} :
        /\ last' = [Call("detect", <<>>, <<>>, r.err,
                         IF leaf_nodes_only THEN "leaf" ELSE "all")
                      EXCEPT !.out = r.out]
        /\ UNCHANGED <<dom, tree_flat, source_path, original_file_path, mutations>>
        /\ UNCHANGED bridge_vars

NextDetect ==
    \/ \E d \in DetectDocs : LoadParsed(d)
    \/ \E leaf \in BOOLEAN : DetectEnglishFields(leaf)

SpecDetect == Init /\ [][NextDetect]_vars

(***************************************************************************)
(* The previews of string values: a fresh session loads a document with    *)
(* one string, of 0 to 34 code points, ASCII or not, with and without      *)
(* whitespace around it.                                                   *)
(***************************************************************************)
PreviewStrings ==
    {pre \o Text(n, c) \o post :
        n \in 0..(PreviewLimit + 2), c \in {"a", "U+952E"},
        pre \in {<<>>, <<" ">>}, post \in {<<>>, <<" ">>, <<"\n">>}}
    \cup {<<"a", "\"", " ", "b">>}

PreviewDocs ==
    {Obj(<<KeyPlain>>, <<Str(s)>>) : s \in PreviewStrings}
    \cup {Arr(<<Str(s)>>) : s \in PreviewStrings}

NextPreview == \E d \in PreviewDocs : LoadParsed(d)

SpecPreview == Init /\ [][NextPreview]_vars

(***************************************************************************)
(* Properties.                                                             *)
(***************************************************************************)
\* the structural fields of the index, without the expanded / visible flags
Structural(tree) ==
    [i \in 1..Len(tree) |->
        [name |-> tree[i].name, path |-> tree[i].path, kind |-> tree[i].kind,
         children |-> tree[i].children, preview |-> tree[i].preview,
         depth |-> tree[i].depth]]

HasPath(tree, path) == \E i \in 1..Len(tree) : tree[i].path = path

MutateOk == last.op = "mutate" /\ last.err = "none"

MutateFailed == last.op = "mutate" /\ last.err # "none"

\* $.a
AddrA == <<"$", ".", "a">>

\* $.a.b
AddrAB == <<"$", ".", "a", ".", "b">>

\* C1: in every reachable state the structural fields of the index are those
\* of build(current document) (an empty index while no document is loaded), so
\* no address of a replaced sub-value stays in the index.
C1_IndexMatchesDocument ==
    IF dom = NoDom THEN tree_flat = <<>>
    ELSE Structural(tree_flat) = Structural(build_shadow_tree(dom))

\* a container was replaced: the address of its former member is gone
C1_Witness ==
    /\ MutateOk
    /\ last.path = AddrA
    /\ ~HasPath(tree_flat, AddrAB)
    /\ Len(tree_flat) = 2

\* C2: a failed mutate leaves the document and the index (flags included)
\* exactly as they were before the call.
C2_FailedMutateChangesNothing ==
    [][(last'.op = "mutate" /\ last'.err # "none")
        => (dom' = dom /\ tree_flat' = tree_flat)]_vars

\* a mutate failed at the assignment (the resolved location is not updatable)
\* on a document whose index carries non-default flags
C2_Witness ==
    /\ MutateFailed
    /\ last.why = "not updatable"
    /\ dom # NoDom
    /\ \E i \in 1..Len(tree_flat) : tree_flat[i].expanded

C4_InvalidJsonRejected ==
    (last.op = "mutate" /\ ~from_str(last.text).ok) => last.err # "none"

\* the text parses to an object one of whose members is an object
IsNestedObjectText(text) ==
    LET x == from_str(text)
    IN  /\ x.ok
        /\ x.v.kind = "Object"
        /\ Len(x.v.kids) > 0
        /\ x.v.kids[1].kind = "Object"
        /\ Len(x.v.kids[1].kids) > 0

\* address + '.' + first member + '.' + its first member, for a nested-object text
NestedMemberPath(path, text) ==
    LET v == from_str(text).v
    IN  path \o <<".">> \o v.keys[1] \o <<".">> \o v.kids[1].keys[1]

IsScalarAt(tree, path) ==
    \E i \in 1..Len(tree) :
        tree[i].path = path /\ tree[i].kind \in {"String", "Number", "Bool", "Null"}

\* C5: a successful mutate of a scalar node with text that encodes a nested
\* JSON object changes the number of index nodes, and the addresses nested
\* inside the new value are extractable.
C5_NestedTextExpandsIndex ==
    [][(/\ last'.op = "mutate"
        /\ last'.err = "none"
        /\ IsNestedObjectText(last'.text)
        /\ IsScalarAt(tree_flat, last'.path))
        => (/\ Len(tree_flat') # Len(tree_flat)
            /\ extract_subtree_pretty(
                   [dom |-> dom', tree_flat |-> tree_flat',
                    source_path |-> source_path',
                    original_file_path |-> original_file_path'],
                   NestedMemberPath(last'.path, last'.text)).err = "none")]_vars

\* characters serde_json writes as an escape sequence
NeedsEscape(c) == c \in {"\"", "\\", "\n", "\t", "\r"}

IsAncestorAddr(a, b) ==
    /\ Len(a) < Len(b)
    /\ SubSeq(b, 1, Len(a)) = a
    /\ b[Len(a) + 1] \in {".", "["}

Unrelated(a, b) == a # b /\ ~IsAncestorAddr(a, b) /\ ~IsAncestorAddr(b, a)

AddrItem1 == <<"$", ".", "i", "t", "e", "m", "s", "[", "1", "]">>

\* $.items[0]
AddrItem0 == <<"$", ".", "i", "t", "e", "m", "s", "[", "0", "]">>

ParentOf(tree, i) ==
    CHOOSE j \in 1..(i - 1) :
        /\ tree[j].depth < tree[i].depth
        /\ \A k \in (j + 1)..(i - 1) : tree[k].depth >= tree[i].depth

AncestorsOf(tree, i) ==
    {j \in 1..(i - 1) : \A k \in (j + 1)..i : tree[k].depth > tree[j].depth}

VisibleSet(tree) == {i \in 1..Len(tree) : tree[i].visible}

\* the parent rule iterated to its least fixpoint, starting from the root alone
RECURSIVE FixVisible(_, _)
FixVisible(tree, vis) ==
    LET more == vis \cup {i \in 2..Len(tree) :
                            ParentOf(tree, i) \in vis /\ tree[ParentOf(tree, i)].expanded}
    IN  IF more = vis THEN vis ELSE FixVisible(tree, more)

\* node 0 visible, every other node visible iff its parent is visible and expanded
ParentRule(tree) ==
    tree # <<>> =>
        /\ tree[1].visible
        /\ \A i \in 2..Len(tree) :
              tree[i].visible
              <=> (tree[ParentOf(tree, i)].visible /\ tree[ParentOf(tree, i)].expanded)

AfterRecompute == last.op \in {"recompute", "toggle"}

\* C8: after recomputeVisibility node 0 is visible and every other node is
\* visible iff its parent is visible and expanded, iff all its ancestors are
\* expanded; the single pass equals the fixpoint of the parent rule.
C8_VisibilityRule ==
    (AfterRecompute /\ tree_flat # <<>>) =>
        /\ ParentRule(tree_flat)
        /\ \A i \in 1..Len(tree_flat) :
              tree_flat[i].visible
              <=> \A a \in AncestorsOf(tree_flat, i) : tree_flat[a].expanded
        /\ VisibleSet(tree_flat) = FixVisible(tree_flat, {1})

\* a node stays hidden although its parent is expanded: a farther ancestor is
\* collapsed
C8_Witness ==
    /\ AfterRecompute
    /\ \E i \in 2..Len(tree_flat) :
          /\ tree_flat[ParentOf(tree_flat, i)].expanded
          /\ ~tree_flat[i].visible

IsExpanded(path) ==
    \E i \in 1..Len(tree_flat) : tree_flat[i].path = path /\ tree_flat[i].expanded

VisiblePaths == {tree_flat[i].path : i \in VisibleSet(tree_flat)}

\* C9 as stated: for {"a": {"b": 1}} with a expanded and b not expanded,
\* recomputeVisibility yields the visible set {root, a, b}.
C9_VisibleWhenAExpanded ==
    (AfterRecompute /\ dom = DocAB /\ IsExpanded(AddrA) /\ ~IsExpanded(AddrAB))
        => VisiblePaths = {<<"$">>, AddrA, AddrAB}

\* C9 amended: for {"a": {"b": 1}} with a expanded and b not expanded,
\* recomputeVisibility yields {root, a, b} when the root is expanded too, and
\* {root} when the root is not expanded.
C9_VisibleWhenRootAndAExpanded ==
    (AfterRecompute /\ dom = DocAB /\ IsExpanded(AddrA) /\ ~IsExpanded(AddrAB))
        => VisiblePaths = IF IsExpanded(<<"$">>) THEN {<<"$">>, AddrA, AddrAB}
                          ELSE {<<"$">>}

C9_Witness ==
    /\ AfterRecompute
    /\ dom = DocAB
    /\ IsExpanded(<<"$">>)
    /\ IsExpanded(AddrA)
    /\ ~IsExpanded(AddrAB)
    /\ VisiblePaths = {<<"$">>, AddrA, AddrAB}

\* position of the first node with the given address, independently of FindNode
FirstAt(tree, path) ==
    {i \in 1..Len(tree) : tree[i].path = path /\ \A j \in 1..(i - 1) : tree[j].path # path}

\* C10: toggleExpanded(address) flips the expanded flag of the node at that
\* address and of no other node (of none when no node has the address); the
\* visible flags then follow the parent rule, and the document and the
\* structural fields of the index are unchanged.
C10_ToggleFrame ==
    [][(last'.op = "toggle")
        => (/\ Len(tree_flat') = Len(tree_flat)
            /\ \A i \in 1..Len(tree_flat) :
                  tree_flat'[i].expanded
                  = (IF i \in FirstAt(tree_flat, last'.path)
                     THEN ~tree_flat[i].expanded ELSE tree_flat[i].expanded)
            /\ ParentRule(tree_flat')
            /\ Structural(tree_flat') = Structural(tree_flat)
            /\ dom' = dom
            /\ source_path' = source_path
            /\ original_file_path' = original_file_path)]_vars

\* a hidden node was toggled to expanded while its parent stays collapsed
C10_Witness ==
    /\ last.op = "toggle"
    /\ \E i \in 2..Len(tree_flat) :
          /\ tree_flat[i].path = last.path
          /\ tree_flat[i].expanded
          /\ ~tree_flat[i].visible

AfterFilter == last.op = "filter"

OnlyWhitespace(text) == \A k \in 1..Len(text) : IsSpace(text[k])

\* C11 as stated: applyFilter(text) makes every node visible when text is empty,
\* and for every non-empty text, also one made only of whitespace, sets each
\* node's visible to (address contains text or name contains text).
C11_FilterExact ==
    AfterFilter =>
        \A i \in 1..Len(tree_flat) :
            tree_flat[i].visible
            = (IF last.text = <<>> THEN TRUE
               ELSE Contains(tree_flat[i].path, last.text)
                    \/ Contains(tree_flat[i].name, last.text))

\* C11 amended: applyFilter(text) makes every node visible when text is empty or
\* made only of whitespace, and for every other text sets each node's visible
\* to (address contains text or name contains text), the text taken untrimmed,
\* whatever the flags were before.
C11_FilterTrimmed ==
    AfterFilter =>
        \A i \in 1..Len(tree_flat) :
            tree_flat[i].visible
            = (IF OnlyWhitespace(last.text) THEN TRUE
               ELSE Contains(tree_flat[i].path, last.text)
                    \/ Contains(tree_flat[i].name, last.text))

\* a filter revealed a node whose parent is collapsed and hid the root
C11_Witness ==
    /\ AfterFilter
    /\ ~OnlyWhitespace(last.text)
    /\ tree_flat # <<>>
    /\ ~tree_flat[1].visible
    /\ \E i \in 2..Len(tree_flat) :
          tree_flat[i].visible /\ ~tree_flat[ParentOf(tree_flat, i)].expanded

Expanded(tree) == [i \in 1..Len(tree) |-> tree[i].expanded]

\* C12: applyFilter changes no expanded flag (nor any structural field), so
\* recomputeVisibility after a filter gives the visibility it would have given
\* before the filter; the filter itself, also when cleared, does not give it.
C12_FilterKeepsExpansion ==
    [][(last'.op = "filter")
        => (/\ Expanded(tree_flat') = Expanded(tree_flat)
            /\ Structural(tree_flat') = Structural(tree_flat)
            /\ update_visibility_by_expansion(tree_flat')
               = update_visibility_by_expansion(tree_flat))]_vars

\* the filter was cleared and the visibility is not the expansion-based one,
\* which a recompute would bring back
C12_Witness ==
    /\ AfterFilter
    /\ last.text = <<>>
    /\ \E i \in 1..Len(tree_flat) : tree_flat[i].expanded
    /\ tree_flat # update_visibility_by_expansion(tree_flat)
    /\ \A i \in 1..Len(tree_flat) : tree_flat[i].visible

\* the location, in the document, of index node i, read off the shape of the
\* index: the parent's location, then the rank of i among the parent's children
RECURSIVE LocOf(_, _)
LocOf(tree, i) ==
    IF i = 1 THEN <<>>
    ELSE LET p == ParentOf(tree, i)
         IN  Append(LocOf(tree, p),
                    1 + Cardinality({j \in (p + 1)..(i - 1) : ParentOf(tree, j) = p}))

\* every location of a value: itself, and the locations inside its members
RECURSIVE AllLocs(_)
AllLocs(v) ==
    {<<>>} \cup UNION {{<<k>> \o l : l \in AllLocs(v.kids[k])} : k \in 1..Len(v.kids)}

\* the members of all nested objects and arrays of a value
RECURSIVE MemberCount(_)
RECURSIVE MemberCountFrom(_, _)
MemberCount(v) == Len(v.kids) + MemberCountFrom(v, 1)

MemberCountFrom(v, k) ==
    IF k > Len(v.kids) THEN 0 ELSE MemberCount(v.kids[k]) + MemberCountFrom(v, k + 1)

\* the name of the member at location loc: its key, or its index in brackets
NameAt(v, loc) ==
    LET holder == ValueAt(v, SubSeq(loc, 1, Len(loc) - 1))
        k == loc[Len(loc)]
    IN  IF holder.kind = "Object" THEN holder.keys[k]
        ELSE <<"[">> \o DecChars(k - 1) \o <<"]">>

HasName(tree, name) == \E i \in 1..Len(tree) : tree[i].name = name

\* C13: for every node of the index of a loaded document, extract(node.address)
\* returns the pretty-printed value of that node and mutate(node.address, text)
\* replaces exactly that node, whatever the shape of the member names.
C13_AddressesResolve ==
    dom # NoDom =>
        \A i \in 1..Len(tree_flat) :
            LET loc == LocOf(tree_flat, i)
                e == extract_subtree_pretty(State, tree_flat[i].path)
                u == update_node_from_str(State, tree_flat[i].path, TextQuoted)
            IN  /\ e.err = "none"
                /\ e.text = to_string_pretty(ValueAt(dom, loc))
                /\ u.err = "none"
                /\ u.st.dom = ReplaceAt(dom, loc, Str(TextQuoted))

\* C14: no two distinct nodes of the index have the same address.
C14_AddressesUnique ==
    \A i, j \in 1..Len(tree_flat) : i # j => tree_flat[i].path # tree_flat[j].path

\* member names with a single quote and with a backslash side by side
C14_Witness ==
    /\ HasName(tree_flat, KeyQuote)
    /\ HasName(tree_flat, KeyBackslash)
    /\ Len(tree_flat) = 3

\* C15: the index lists every node of the document exactly once in pre-order:
\* entry 0 is the root ("$", depth 0); every other node follows its parent at
\* depth + 1 and carries the name, kind and member count of the value at its
\* place; the length is 1 + the number of members of all nested containers.
C15_PreOrder ==
    dom # NoDom =>
        /\ tree_flat[1].path = <<"$">>
        /\ tree_flat[1].depth = 0
        /\ Len(tree_flat) = 1 + MemberCount(dom)
        /\ \A i \in 2..Len(tree_flat) :
              /\ tree_flat[i].depth >= 1
              /\ tree_flat[i].depth = tree_flat[ParentOf(tree_flat, i)].depth + 1
        /\ {LocOf(tree_flat, i) : i \in 1..Len(tree_flat)} = AllLocs(dom)
        /\ \A i \in 1..Len(tree_flat) :
              LET loc == LocOf(tree_flat, i)
              IN  /\ tree_flat[i].kind = ValueAt(dom, loc).kind
                  /\ tree_flat[i].children = Len(ValueAt(dom, loc).kids)
                  /\ i > 1 => /\ tree_flat[i].name = NameAt(dom, loc)
                              /\ IsAncestorAddr(tree_flat[ParentOf(tree_flat, i)].path,
                                                tree_flat[i].path)

\* an array nested in an array nested in an object: four levels
C15_Witness ==
    /\ last.op = "load"
    /\ last.err = "none"
    /\ \E i \in 1..Len(tree_flat) : tree_flat[i].depth = 3 /\ tree_flat[i].kind = "Null"
    /\ Len(tree_flat) = 5

\* C16: a successful load installs the parsed file as the document, its index
\* build(document) and the loaded path as both file locations; a failed load
\* (unreadable file, invalid JSON) leaves all four exactly as they were.
C16_LoadAtomic ==
    [][(last'.op = "load")
        => IF last'.err = "none"
           THEN \E p \in Paths :
                    /\ FileSystem[p].readable
                    /\ from_str(FileSystem[p].text).ok
                    /\ dom' = from_str(FileSystem[p].text).v
                    /\ tree_flat' = build_shadow_tree(dom')
                    /\ source_path' = p
                    /\ original_file_path' = p
           ELSE /\ dom' = dom
                /\ tree_flat' = tree_flat
                /\ source_path' = source_path
                /\ original_file_path' = original_file_path]_vars

\* a file that is not JSON was loaded over a session with a document whose
\* index carries expanded flags
C16_Witness ==
    /\ last.op = "load"
    /\ last.err = "Parse"
    /\ dom = DocItems
    /\ source_path = 2
    /\ \E i \in 1..Len(tree_flat) : tree_flat[i].expanded

\* C17: extract fails with the not-loaded error exactly when no document is
\* present, with an address error when a document is present and the address
\* matches no node, and otherwise returns the pretty text of the first match;
\* extract("$") parses back to the document; extract changes no session state.
C17_ExtractOutcome ==
    [][(last'.op = "extract")
        => (/\ dom' = dom
            /\ tree_flat' = tree_flat
            /\ source_path' = source_path
            /\ original_file_path' = original_file_path
            /\ (last'.err = "State") <=> (dom = NoDom)
            /\ dom # NoDom =>
                  LET r == query(dom, last'.path) IN
                  IF r.err # "none" \/ r.hits = <<>>
                  THEN last'.err = "JsonPath" /\ last'.out = <<>>
                  ELSE /\ last'.err = "none"
                       /\ last'.out = to_string_pretty(ValueAt(dom, r.hits[1]))
            /\ (dom # NoDom /\ last'.path = <<"$">>) =>
                  /\ last'.err = "none"
                  /\ from_str(last'.out).ok
                  /\ from_str(last'.out).v = dom)]_vars

\* the whole document, one with an array and an object in it, was extracted
C17_Witness ==
    /\ last.op = "extract"
    /\ last.path = <<"$">>
    /\ last.err = "none"
    /\ dom = DocTitle
    /\ from_str(last.out).v = DocTitle

\* the member named k of an object value
Member(v, k) == v.kids[KeyIndex(v, k)]

\* the items of an intermediate product, read from its text
ItemsOf(text) == Member(from_str(text).v, K_items).kids

AfterDerive == last.op = "derive" /\ dom # NoDom /\ last.text # <<>>

\* the selection rule in the words of the pipeline's contract
Qualifies(node, filter, leaf_only) ==
    /\ node.visible
    /\ IF leaf_only
       THEN Contains(node.name, filter) /\ node.kind \notin {"Object", "Array"}
       ELSE Contains(node.path, filter) \/ Contains(node.name, filter)

Qualifying(tree, filter, leaf_only) ==
    SelectSeq(tree, LAMBDA node : Qualifies(node, filter, leaf_only))

ItemsMatch(items, nodes) ==
    /\ Len(items) = Len(nodes)
    /\ \A k \in 1..Len(items) :
          /\ Member(items[k], K_source_path) = Str(nodes[k].path)
          /\ Member(items[k], K_field_name) = Str(nodes[k].name)

\* C18: the items of the derivation pipeline are exactly the qualifying index
\* nodes, in index order (leaf-only: visible, name contains the filter, scalar
\* kind; otherwise: visible, address or name contains the filter).
C18_ItemsAreQualifyingNodes ==
    AfterDerive =>
        /\ last.err = "none"
        /\ from_str(last.out).ok
        /\ ItemsMatch(ItemsOf(last.out), Qualifying(tree_flat, last.text, last.why = "leaf"))

\* on every run that returns a product, its items are the qualifying nodes
C18_ItemsOfProducts ==
    (AfterDerive /\ last.err = "none" /\ last.out # <<>>) =>
        /\ from_str(last.out).ok
        /\ ItemsMatch(ItemsOf(last.out), Qualifying(tree_flat, last.text, last.why = "leaf"))

\* the nearest node, from i upwards, whose address ends in a dot-form member
\* (0 when there is none): the last '.' outside brackets is the one before it
RECURSIVE DotAncestor(_, _)
DotAncestor(tree, i) ==
    IF i = 1 THEN 0
    ELSE IF tree[i].path = tree[ParentOf(tree, i)].path \o <<".">> \o tree[i].name
         THEN i
    ELSE DotAncestor(tree, ParentOf(tree, i))

\* the name address the contract derives for node i
ExpectedNamePath(tree, i) ==
    IF tree[i].name = NameWord \/ DotAncestor(tree, i) = 0 THEN tree[i].path
    ELSE tree[ParentOf(tree, DotAncestor(tree, i))].path \o NameSuffix

\* C19: for every item, the derived name address is the address up to the last
\* '.' outside brackets followed by ".name" (whatever the bracket segments
\* before it contain), the node's own address for a node named "name" or with
\* no such '.', then with an empty name value; no derivation aborts the run.
C19_NameAddressDerived ==
    AfterDerive =>
        /\ last.err = "none"
        /\ from_str(last.out).ok
        /\ LET items == ItemsOf(last.out)
               nodes == Qualifying(tree_flat, last.text, last.why = "leaf")
           IN  /\ Len(items) = Len(nodes)
               /\ \A k \in 1..Len(items) :
                     LET i == FindNode(tree_flat, nodes[k].path) IN
                     /\ Member(items[k], K_name_path)
                        = Str(ExpectedNamePath(tree_flat, i))
                     /\ (tree_flat[i].name # NameWord /\ DotAncestor(tree_flat, i) = 0)
                        => Member(items[k], K_name_field_value) = Str(<<>>)

\* C20: in every intermediate product count is the number of items and the
\* seq of the item at position k (from 0) is k, whatever the document holds
\* and whichever nodes lie between the matches.
C20_SeqContiguous ==
    (last.op = "derive" /\ last.err = "none" /\ last.out # <<>>) =>
        /\ from_str(last.out).ok
        /\ LET product == from_str(last.out).v
               items == Member(product, K_items).kids
           IN  /\ Member(product, K_count) = Num(DecChars(Len(items)))
               /\ \A k \in 1..Len(items) :
                     Member(items[k], K_seq) = Num(DecChars(k - 1))

\* {"x":{"name":"A"},"y":{"name":"B"}} filtered on "name": two items, seq 0
\* and 1, with the non-matching node y between them in the index
C20_Witness ==
    /\ last.op = "derive"
    /\ last.err = "none"
    /\ last.text = NameWord
    /\ dom = DocXY
    /\ Len(ItemsOf(last.out)) = 2
    /\ Member(ItemsOf(last.out)[1], K_seq) = Num(<<"0">>)
    /\ Member(ItemsOf(last.out)[2], K_seq) = Num(<<"1">>)
    /\ Member(ItemsOf(last.out)[2], K_source_path)
       = Str(<<"$", ".", "y", ".", "n", "a", "m", "e">>)

\* the checkpoints of a completed run, in tenths, in the order of the calls
AllCheckpoints == <<1, 5, 5, 9, 10>>

IsPrefix(s, t) == Len(s) <= Len(t) /\ s = SubSeq(t, 1, Len(s))

\* C21 as stated: a run with a non-empty filter that returns a product invokes
\* the progress callback exactly four times, with 10%, 50%, 90% and 100% in this
\* order; a run with an empty filter never invokes it and returns the empty text.
C21_FourCheckpoints ==
    (last.op = "derive" /\ last.err = "none") =>
        IF Trim(last.text) = <<>>
        THEN last.progress = <<>> /\ last.out = <<>>
        ELSE last.progress = <<1, 5, 9, 10>>

\* C21 amended: a run whose filter is not blank invokes the callback with 10%,
\* 50%, 50%, 90%, 100% in this order when it returns a product, whatever the
\* number of items, and with a non-empty proper prefix of these when it fails;
\* a run with a blank filter never invokes it and returns the empty text.
C21_FixedCheckpoints ==
    last.op = "derive" =>
        IF Trim(last.text) = <<>>
        THEN last.progress = <<>> /\ last.out = <<>> /\ last.err = "none"
        ELSE /\ last.progress # <<>>
             /\ IsPrefix(last.progress, AllCheckpoints)
             /\ (last.err = "none") <=> (last.progress = AllCheckpoints)

\* a run on {"x":{"name":"A"},"y":{"name":"B"}} returned a product of two items
\* and reported the five checkpoints
C21_Witness ==
    /\ last.op = "derive"
    /\ last.err = "none"
    /\ dom = DocXY
    /\ last.text = NameWord
    /\ Len(ItemsOf(last.out)) = 2
    /\ last.progress = AllCheckpoints

\* the member names of a pretty-printed flat object, in the order of the text:
\* each member starts a line with two spaces and a quote
RECURSIVE TextKeys(_, _)
TextKeys(t, i) ==
    IF i + 3 > Len(t) THEN <<>>
    ELSE IF t[i] = "\n" /\ t[i + 1] = " " /\ t[i + 2] = " " /\ t[i + 3] = "\""
         THEN LET close == CHOOSE j \in (i + 4)..Len(t) :
                              /\ t[j] = "\""
                              /\ \A m \in (i + 4)..(j - 1) : t[m] # "\""
              IN  <<SubSeq(t, i + 4, close - 1)>> \o TextKeys(t, close)
         ELSE TextKeys(t, i + 1)

\* a comes before b in the lexicographic order of digit texts
LexLess(a, b) ==
    \E i \in 1..(Len(b)) :
        /\ \A m \in 1..(i - 1) : m <= Len(a) /\ a[m] = b[m]
        /\ \/ i = Len(a) + 1
           \/ i <= Len(a) /\ DigitVal(a[i]) < DigitVal(b[i])

AfterTransform == last.op \in {"transform", "one click"} /\ last.err = "none"

\* C22: the final product of the projection transform is an object with exactly
\* one entry per item of the intermediate product, keyed by the decimal text of
\* the item's seq with the item's name text as value, its keys written in
\* lexicographic order of their text.
C22_ProjectionReKeys ==
    AfterTransform =>
        /\ from_str(final_full_text).ok
        /\ LET items == ItemsOf(preview_full_text)
               final == from_str(final_full_text).v
               keys == TextKeys(final_full_text, 1)
           IN  /\ final.kind = "Object"
               /\ Len(keys) = Len(items)
               /\ \A k \in 1..Len(items) :
                     /\ Member(items[k], K_seq) = Num(DecChars(k - 1))
                     /\ KeyIndex(final, DecChars(k - 1)) > 0
                     /\ Member(final, DecChars(k - 1)) = Member(items[k], NameWord)
                     /\ Member(final, DecChars(k - 1)).kind = "String"
                     /\ \E j \in 1..Len(keys) : keys[j] = DecChars(k - 1)
               /\ \A j \in 1..(Len(keys) - 1) : LexLess(keys[j], keys[j + 1])

\* eleven items or more were re-keyed, and key "10" is written before key "2"
C22_Witness ==
    /\ AfterTransform
    /\ Len(ItemsOf(preview_full_text)) >= 11
    /\ TextKeys(final_full_text, 1)[3] = <<"1", "0">>
    /\ TextKeys(final_full_text, 1)[4] = <<"2">>
    /\ Member(from_str(final_full_text).v, <<"1", "0">>) = Str(<<"v", "1", "0">>)

\* thread i processes one entry of its upload in this step
EntryStep(i) ==
    /\ Len(workers') = Len(workers)
    /\ workers[i].pc = "loop"
    /\ workers'[i].next = workers[i].next + 1

EntryKey(w) == w.writeback_obj.keys[w.next]

EntryValue(w) == w.writeback_obj.kids[w.next]

\* the key is a sequence number: decimal digits, which str::parse reads also
\* after a '+' sign
IsSeqKey(key) ==
    LET d == IF key # <<>> /\ key[1] = "+" THEN Tail(key) ELSE key IN
    d # <<>> /\ \A m \in 1..Len(d) : d[m] \in DigitSet

SeqOfKey(key) == ParseNat(IF key[1] = "+" THEN Tail(key) ELSE key)

\* the source_path of the item the entry of thread w names
EntryAddress(w) == Member(w.items[SeqOfKey(EntryKey(w)) + 1], K_source_path).str

\* the cases in which the claim has the entry skipped; the last one only
\* when blank is set: a string value that is empty after trimming
MustSkip(w, blank) ==
    \/ ~IsSeqKey(EntryKey(w))
    \/ SeqOfKey(EntryKey(w)) >= Len(w.items)
    \/ EntryValue(w).kind \in {"Null", "Object", "Array"}
    \/ ~update_json_by_path(w.json_data, EntryAddress(w), <<>>).ok
    \/ blank /\ EntryValue(w).kind = "String" /\ Trim(EntryValue(w).str) = <<>>

Skipped(w, v) ==
    /\ v.skipped_count = w.skipped_count + 1
    /\ v.modified_count = w.modified_count
    /\ v.json_data = w.json_data
    /\ v.pc = "loop"

\* the text of the value is stored, as a string, at the item's source_path,
\* and nothing else of the clone is changed
Applied(w, v) ==
    /\ v.modified_count = w.modified_count + 1
    /\ v.skipped_count = w.skipped_count
    /\ query(v.json_data, EntryAddress(w)).hits # <<>>
    /\ ValueAt(v.json_data, query(v.json_data, EntryAddress(w)).hits[1])
       = Str(EntryValue(w).str)
    /\ v.json_data = ReplaceAt(w.json_data, query(w.json_data, EntryAddress(w)).hits[1],
                               Str(EntryValue(w).str))
    /\ v.pc = "loop"

EntriesHandled(blank) ==
    \A i \in DOMAIN workers :
        EntryStep(i) =>
            /\ IF MustSkip(workers[i], blank) THEN Skipped(workers[i], workers'[i])
               ELSE Applied(workers[i], workers'[i])
            /\ workers'[i].modified_count + workers'[i].skipped_count
               = workers[i].next

C24_OneWritebackAtATime ==
    \A i, j \in DOMAIN workers :
        (workers[i].pc # "start" /\ workers[j].pc # "start") => i = j

\* the document with the first k entries of thread w's upload applied to the
\* clone it was handed
RECURSIVE Merged(_, _)
Merged(w, k) ==
    IF k = 0 THEN w.original_json
    ELSE process_entry([w EXCEPT !.next = k, !.json_data = Merged(w, k - 1)]).json_data

\* a step of a write-back thread: the threads change and no upload starts
ThreadStep == workers' # workers /\ mutations' = mutations

\* the file is written by a thread that has applied its whole batch to its clone
WholeBatchWritten ==
    \E i \in DOMAIN workers :
        LET w == workers[i] IN
        /\ w.pc = "loop"
        /\ w.next = Len(w.writeback_obj.keys) + 1
        /\ w.json_data = Merged(w, Len(w.writeback_obj.keys))
        /\ disk' = [disk EXCEPT ![w.original_file_path] =
                       File(to_string_pretty(w.json_data))]

\* the session is given the whole document of a file, with its rebuilt index
WholeFileInstalled ==
    \E p \in DOMAIN disk :
        /\ from_str(disk[p].text).ok
        /\ dom' = from_str(disk[p].text).v
        /\ Structural(tree_flat') = Structural(build_shadow_tree(dom'))
        /\ original_file_path' = p

\* C25: the steps of a write-back thread leave the session's document and
\* index as they are; these change only in steps of the owning context (load,
\* reload, filter), and the document only to the whole content of a file; a
\* file is written only by a thread that has applied its whole batch to its
\* clone, so the session never holds a document with part of a batch applied.
C25_OnlyWholeDocumentsInstalled ==
    [][/\ ThreadStep => UNCHANGED <<dom, tree_flat, source_path, original_file_path>>
       /\ (dom' # dom \/ tree_flat' # tree_flat)
             => (~ThreadStep /\ last'.op \in {"load", "reload", "filter"})
       /\ dom' # dom => (WholeFileInstalled /\ last'.op \in {"load", "reload"})
       /\ disk' # disk => (ThreadStep /\ WholeBatchWritten)]_vars

\* {"name": "P", "nick": "Q"}: DocNames with both corrections
DocPQ == Obj(<<NameWord, KeyNick>>, << Str(<<"P">>), Str(<<"Q">>) >>)

\* the reload after a write-back has installed the merged document while a
\* second thread, started from the same document, is half-way through its batch
C25_Witness ==
    /\ last.op = "reload"
    /\ last.err = "none"
    /\ dom = DocPQ
    /\ Structural(tree_flat) = Structural(build_shadow_tree(DocPQ))
    /\ \E i \in DOMAIN workers :
          /\ workers[i].pc = "loop"
          /\ workers[i].next = 2
          /\ workers[i].original_json = DocNames
          /\ workers[i].json_data # DocNames
          /\ workers[i].json_data # DocPQ

\* the addresses of the nodes of a document
AddressesOf(d) == {build_shadow_tree(d)[k].path : k \in 1..Len(build_shadow_tree(d))}

\* C29: a corrections-apply edits only the document its intermediate product
\* was derived from: a thread that has changed its clone or written the file
\* works with items whose source_path are all addresses of that document.
C29_EditsOnlyTheSourceDocument ==
    \A i \in DOMAIN workers :
        (workers[i].json_data # workers[i].original_json \/ workers[i].pc = "saved")
            => \A k \in 1..Len(workers[i].items) :
                  Member(workers[i].items[k], K_source_path).str
                      \in AddressesOf(workers[i].original_json)

\* the result of the last run of the field classifier, when it returned one
AfterDetect == last.op = "detect" /\ last.err = "none"

\* a collected string that the classifier is to keep
Qualified(s) ==
    /\ Len(s) >= 2 /\ Len(s) <= 50
    /\ \E i \in 1..Len(s) : s[i] \in LowerSet \cup UpperSet
    /\ \A i \in 1..Len(s) : s[i] \in LowerSet \cup UpperSet \cup {"_", "-"}
    /\ ~is_time_format(s)
    /\ ~is_version_format(s)

\* the strings collected from the document that qualify
Candidates == {s \in extract_english_keys(dom, last.why = "leaf").fields : Qualified(s)}

\* C26: detect_english_fields returns at most 20 strings in strictly
\* increasing lexical order, each of length 2 to 50, with a letter, made of
\* letters, underscore and hyphen only, not timestamp- or version-shaped; they
\* are the qualifying candidates, or the 20 smallest when more than 20 qualify.
C26_FieldsSortedAndCapped ==
    AfterDetect =>
        LET r == last.out
            got == {r[i] : i \in 1..Len(r)}
        IN  /\ Len(r) <= MaxFields
            /\ \A i \in 1..(Len(r) - 1) : LessStr(r[i], r[i + 1])
            /\ got \subseteq Candidates
            /\ Cardinality(Candidates) <= MaxFields => got = Candidates
            /\ Cardinality(Candidates) > MaxFields =>
                  /\ Len(r) = MaxFields
                  /\ \A c \in Candidates \ got : \A i \in 1..Len(r) : LessStr(r[i], c)

\* the classifier ran on a document with 23 qualifying names and kept 20,
\* "Top" first and "fs" last
C26_Witness ==
    /\ AfterDetect
    /\ Cardinality(Candidates) = MaxFields + 3
    /\ Len(last.out) = MaxFields
    /\ last.out[1] = <<"T", "o", "p">>
    /\ last.out[MaxFields] = <<"f", "s">>

\* C30: the classifier gives the same outcome with the leaf flag set and
\* with it cleared.
C30_LeafFlagChangesNothing ==
    last.op = "detect" =>
        LET other == detect_english_fields(State, last.why # "leaf") IN
        other.err = last.err /\ other.out = last.out

\* the classifier ran with the leaf flag set on a document that has string
\* members beside numbers, objects and arrays, and found names at every depth
C30_Witness ==
    /\ AfterDetect
    /\ last.why = "leaf"
    /\ dom # NoDom
    /\ Len(dom.kids) = Len(PoolNames)
    /\ last.out = << <<"Z", "e", "d">>, <<"a", "b">>, <<"e", "l", "-", "t">>,
                     <<"i", "n", "_", "n", "e", "r">> >>

\* the string nodes of a document with one string, and the string they show
StringNodes == {i \in 1..Len(tree_flat) : tree_flat[i].kind = "String"}

ShownString == dom.kids[1].str

Ellipsis == <<".", ".", ".">>

Quoted(s) == <<"\"">> \o s \o <<"\"">>

\* the preview the rule gives for the string s
CappedPreview(s) ==
    IF Len(s) <= PreviewLimit THEN Quoted(s)
    ELSE Quoted(SubSeq(s, 1, PreviewLimit) \o Ellipsis)

\* t is s without its leading and trailing whitespace
IsTrimOf(t, s) ==
    \E a \in 1..(Len(s) + 1), b \in 0..Len(s) :
        /\ t = SubSeq(s, a, b)
        /\ \A i \in 1..(a - 1) : IsSpace(s[i])
        /\ \A i \in (b + 1)..Len(s) : IsSpace(s[i])
        /\ t # <<>> => (~IsSpace(t[1]) /\ ~IsSpace(t[Len(t)]))

\* C27 as stated: the preview of a string node is the string itself, quoted,
\* when it has at most 32 code points, and its first 32 code points followed
\* by the ellipsis, quoted, otherwise.
C27_PreviewVerbatim ==
    \A i \in StringNodes : tree_flat[i].preview = CappedPreview(ShownString)

\* C27 (amended): the preview of a string node is made from the string
\* without its leading and trailing whitespace: that text quoted when it has
\* at most 32 code points, and its first 32 code points followed by the
\* ellipsis, quoted, otherwise.
C27_PreviewOfTrimmed ==
    \A i \in StringNodes :
        \E t \in {SubSeq(ShownString, a, b) :
                    a \in 1..(Len(ShownString) + 1), b \in 0..Len(ShownString)} :
            /\ IsTrimOf(t, ShownString)
            /\ tree_flat[i].preview = CappedPreview(t)

\* a string of 33 non-ASCII code points after a space is shown cut to 32
C27_Witness ==
    /\ StringNodes # {}
    /\ ShownString = <<" ">> \o Text(PreviewLimit + 1, "U+952E")
    /\ \A i \in StringNodes :
          tree_flat[i].preview = Quoted(Text(PreviewLimit, "U+952E") \o Ellipsis)

\* the expanded and visible flags of the nodes of an index
Flags(tree) == [i \in 1..Len(tree) |-> <<tree[i].expanded, tree[i].visible>>]

\* C28: right after a successful load or mutate every node is collapsed and
\* visible, whatever the flags were before; a failed load or mutate leaves the
\* flags of all nodes as they were.
C28_FlagsResetOnSuccess ==
    [][(last'.op \in {"load", "mutate"})
        => IF last'.err = "none"
           THEN \A i \in 1..Len(tree_flat') :
                    ~tree_flat'[i].expanded /\ tree_flat'[i].visible
           ELSE Flags(tree_flat') = Flags(tree_flat)]_vars

\* a mutate has replaced a value of a loaded document and every node of the
\* rebuilt index is collapsed and visible
C28_Witness ==
    /\ MutateOk
    /\ Len(tree_flat) > 1
    /\ \A i \in 1..Len(tree_flat) : ~tree_flat[i].expanded /\ tree_flat[i].visible

=============================================================================
